---- MODULE Spec2Model ----
(***************************************************************************)
(* Model of the S3Explorer indexing and transfer core (src-tauri/src).     *)
(*                                                                         *)
(* The module holds several specifications over one set of variables:      *)
(*   SpecCache     ManagedCache::get_or_insert_with under concurrent calls *)
(*   SpecIndexing  start_initial_index / cancel_indexing / the index run   *)
(*   SpecIndex     the SQLite index under hooks, listings and index runs   *)
(*   SpecUpload    upload_file task, perform_upload and cancel_upload      *)
(*   SpecDownload  download_file task and cancel_download                  *)
(*   SpecHooks     SpecIndex with commands whose index hook fails          *)
(*   SpecWatermark is_prefix_complete on what index runs leave behind      *)
(*   SpecRun       one start_initial_index call followed page by page      *)
(*   SpecTransfers uploads and downloads side by side                      *)
(*   SpecStore     database and index manager calls on given tables        *)
(*   SpecProfiles  profile commands and the two manager caches             *)
(*   SpecLocks     the lock / await order of the commands and tasks        *)
(*   SpecConnect   test_connection and its path-style retry                *)
(*   SpecInputs    the object commands on valid and invalid names and keys *)
(*   SpecPstore    ProfileStore upsert / delete calls and get               *)
(*   SpecSiblings  is_prefix_complete on prefixes sharing a leading string *)
(* Each specification leaves the variables of the other parts unchanged.   *)
(*                                                                         *)
(* Strings (object keys, prefixes) are sequences of character codes, so    *)
(* that rfind, trim_end_matches, LIKE and lexicographic order are computed *)
(* as the code computes them.                                              *)
(***************************************************************************)
EXTENDS Integers, Sequences, FiniteSets, TLC


\* ------------------------------------------------------------------------
\* Strings: sequences of character codes ('/' = 47, 'a' = 97, 'x' = 120 ...)
\* ------------------------------------------------------------------------
Slash == 47

EmptyStr == << >>

\* byte-wise lexicographic order of Rust's str (a < b)
StrLess(a, b) ==
    \E i \in 1..Len(b) :
        /\ i <= Len(a) + 1
        /\ \A j \in 1..(i - 1) : a[j] = b[j]
        /\ (i = Len(a) + 1 \/ a[i] < b[i])

\* str::starts_with
StartsWith(s, p) == Len(p) <= Len(s) /\ SubSeq(s, 1, Len(p)) = p

\* str::trim_end_matches('/')
RECURSIVE TrimEndSlash(_)
TrimEndSlash(s) ==
    IF s # EmptyStr /\ s[Len(s)] = Slash
      THEN TrimEndSlash(SubSeq(s, 1, Len(s) - 1))
      ELSE s

\* str::rfind('/') as a 1-based position, 0 when there is none
RFindSlash(s) ==
    LET hits == {i \in 1..Len(s) : s[i] = Slash}
    IN  IF hits = {} THEN 0 ELSE CHOOSE i \in hits : \A j \in hits : j <= i

\* ASCII case folding of SQLite's LIKE
Lower(c) == IF c >= 65 /\ c <= 90 THEN c + 32 ELSE c

\* SQLite's `s LIKE p`: '%' (37) matches any run, '_' (95) any one character,
\* other characters match case-insensitively
RECURSIVE Like(_, _)
Like(s, p) ==
    IF p = EmptyStr THEN s = EmptyStr
    ELSE IF Head(p) = 37
      THEN Like(s, Tail(p)) \/ (s # EmptyStr /\ Like(Tail(s), p))
      ELSE /\ s # EmptyStr
           /\ (Head(p) = 95 \/ Lower(Head(p)) = Lower(Head(s)))
           /\ Like(Tail(s), Tail(p))

\* the pattern format!("{}%", prefix)
LikePrefix(s, prefix) == Like(s, prefix \o <<37>>)

\* the prefixes visited by `while let Some(pos) =
\* current.trim_end_matches('/').rfind('/') { current = current[..pos] + "/" }`
RECURSIVE ParentChain(_)
ParentChain(current) ==
    LET pos == RFindSlash(TrimEndSlash(current))
    IN  IF pos = 0 THEN {}
        ELSE LET next == SubSeq(current, 1, pos)
             IN  {next} \cup ParentChain(next)

\* IndexedObject::extract_parent_prefix: the key up to and including its
\* last '/', or the empty string
ExtractParentPrefix(key) == SubSeq(key, 1, RFindSlash(key))

\* the elements of a finite set of strings in ascending order
RECURSIVE SortStrs(_)
SortStrs(S) ==
    IF S = {} THEN << >>
    ELSE LET m == CHOOSE x \in S : \A y \in S : y = x \/ StrLess(x, y)
         IN  <<m>> \o SortStrs(S \ {m})

SeqToSet(q) == {q[i] : i \in 1..Len(q)}

\* ------------------------------------------------------------------------
\* Bounds
\* ------------------------------------------------------------------------
NumThreads == 2
NumProfiles == 2
MaxInits == 3
MaxRemovals == 1
MaxBuckets == 2            \* buckets a list_buckets answer holds
MaxTests == 2             \* test_connection commands
MaxStoreCalls == 2        \* ProfileStore calls

MaxRequestsBound == 2     \* largest max_initial_requests tried
BigPage == 4              \* a page size that holds every key of the model
NumCalls == 2             \* concurrent start_initial_index invocations
NumChunks == 2            \* chunks of the downloaded body

Threads == 1..NumThreads
Profiles == 1..NumProfiles
Calls == 1..NumCalls

\* object keys of the modelled bucket: "x" and "a/b/x"
KeyX == <<120>>
KeyABX == <<97, 47, 98, 47, 120>>
Keys == {KeyX, KeyABX}

\* prefixes given to list_objects / delete_folder: "", "a/", "a/b/"
PrefixRoot == EmptyStr
PrefixA == <<97, 47>>
PrefixAB == <<97, 47, 98, 47>>
InputPrefixes == {PrefixRoot, PrefixA, PrefixAB}
FolderPrefixes == {PrefixA, PrefixAB}

\* ------------------------------------------------------------------------
\* Variables
\* ------------------------------------------------------------------------
VARIABLES
    cache,      \* INDEX_MANAGERS: profile id -> cached value id, 0 when absent
    cpc,        \* per caller of get_or_insert_with: position in the function
    ckey,       \* per caller: the key of the call in progress
    cgen,       \* per caller: removals[key] when the call started
    cval,       \* per caller: value id held or returned (0 none, -1 Err)
    inits,      \* number of init() invocations so far (fresh value ids)
    removals,   \* per key: number of explicit removals so far
    s3,         \* the keys stored in the S3 bucket
    objects,    \* table objects: the indexed keys of the bucket
    prefix_status, \* table prefix_status: prefix -> [is_complete, last_indexed_key]
    bucket_info, \* table bucket_info: the row of the bucket
    active_indexing, \* AppState.active_indexing for the bucket: the call whose
                     \* IndexTask is stored, 0 when there is no entry
    ipc,        \* per start_initial_index call: position in the function
    icfg,       \* per call: <<max_initial_requests, batch_size>>
    irun,       \* per call: the locals of initial_index_bucket
    icancel,    \* per call: a message waits in its cancel channel
    iresult,    \* per call: what the call returned or is about to return
    index_events, \* index:progress events emitted so far, per status
    run_events, \* per call: how far its run's index:progress events have got
    cancel_indexing_result, \* what the last cancel_indexing returned
    upc,        \* upload_file: position of the command
    utask,      \* position of the spawned upload task
    uinput,     \* <<key, file size, multipart threshold>> of the upload
    upart,      \* part_number of the part being uploaded
    active_uploads, \* AppState.active_uploads holds the UploadTask
    ulock,      \* cancel_upload holds the active_uploads mutex
    usignal,    \* a message waits in the upload's cancel channel
    uabort,     \* JoinHandle::abort was called on the upload task
    ucancel,    \* cancel_upload: position and result
    uevents,    \* the upload:progress statuses emitted so far
    uevent_bytes, \* the uploaded_bytes carried by each of these events
    uploaded_bytes, \* perform_upload's running total
    uhook,      \* the add_object hook of the upload: "none", "skipped", "ran"
    mp,         \* the multipart upload at S3: created, completed, abort issued
    dpc,        \* download_file: position of the command
    dtask,      \* position of the spawned download task
    active_downloads, \* AppState.active_downloads holds the DownloadTask
    dsignal,    \* a message waits in the download's cancel channel
    dabort,     \* JoinHandle::abort was called on the download task
    dcancel,    \* cancel_download: position and result
    devents,    \* the download:progress statuses emitted so far
    devent_bytes, \* the downloaded_bytes carried by each of these events
    dfile,      \* the destination file exists on disk
    dchunks,    \* chunks written to the destination file
    cmd_result, \* what the last command whose index hook failed returned
    query_prefix, \* the prefix of the last is_prefix_complete call
    query_answer, \* its result: "none" before the first call, "true", "false"
    store,      \* the tables of one database: the first one and the one after
                \* each call made on it, the last being the current one
    calls,      \* the DatabaseManager / IndexManager calls made on it
    profiles,   \* AppState.profiles: the ids of the saved profiles
    db_cache,   \* DB_MANAGERS: profile id -> an entry is cached
    last_cmd,   \* the last profile command: [op, profile_id, result]
    lpc,        \* per command or task: the statement of its program it is at
    holder,     \* per AppState mutex: the command or task holding its guard
    tpc, \* test_connection: position in the function
    tprofile, \* its profile: [path_style, endpoint]
    trequests, \* the path_style setting of each list_buckets request it sent
    tfirst, \* how the first attempt ended: "none", "ok", "timeout" or the error
    tretry, \* how the retry ended, "none" when there was none
    tresponse, \* the TestConnectionResponse it returned
    temits, \* the metrics events of the test_connection commands so far
    vcmd, \* the last object command: [op, bucket, key, result]
    vrequests, \* the S3 requests that command issued
    vhook, \* the index hook that command ran: "none", "add_object", "remove_object"
    pstore, \* the ProfileStore [profiles, decrypted_cache]: the first one and the one after each call, the last being the current one
    pcalls, \* the upsert / delete calls made on it: [op, id, profile, result]
    pdisk \* the encrypted profiles last written to profiles.json

cacheVars == <<cache, cpc, ckey, cgen, cval, inits, removals>>

indexVars == <<s3, objects, prefix_status, bucket_info>>

indexingVars == <<active_indexing, ipc, icfg, irun, icancel, iresult,
                  index_events, run_events, cancel_indexing_result>>

uploadVars == <<upc, utask, uinput, upart, active_uploads, ulock, usignal,
                uabort, ucancel, uevents, uevent_bytes, uploaded_bytes, uhook,
                mp>>

downloadVars == <<dpc, dtask, active_downloads, dsignal, dabort, dcancel,
                  devents, devent_bytes, dfile, dchunks>>

\* what the actions of each part leave alone
hookVars == <<cmd_result, query_prefix, query_answer>>

storeVars == <<store, calls>>

profileVars == <<profiles, db_cache, last_cmd>>

lockVars == <<lpc, holder>>

connVars == <<tpc, tprofile, trequests, tfirst, tretry, tresponse, temits>>

inputVars == <<vcmd, vrequests, vhook>>

pstoreVars == <<pstore, pcalls, pdisk>>

notCacheVars == <<indexVars, indexingVars, uploadVars, downloadVars, hookVars,
    storeVars, profileVars,
    lockVars,
    connVars,
    inputVars,
    pstoreVars>>
notIndexVars == <<cacheVars, indexingVars, uploadVars, downloadVars, hookVars,
    storeVars, profileVars,
    lockVars,
    connVars,
    inputVars,
    pstoreVars>>
notIndexingVars == <<cacheVars, uploadVars, downloadVars, hookVars,
    storeVars, profileVars,
    lockVars,
    connVars,
    inputVars,
    pstoreVars>>
notUploadVars == <<cacheVars, indexingVars, downloadVars, hookVars,
    storeVars, profileVars,
    lockVars,
    connVars,
    inputVars,
    pstoreVars>>
notDownloadVars == <<cacheVars, indexVars, indexingVars, uploadVars, hookVars,
    storeVars, profileVars,
    lockVars,
    connVars,
    inputVars,
    pstoreVars>>
notHookVars == <<cacheVars, indexingVars, uploadVars, downloadVars,
    storeVars, profileVars,
    lockVars,
    connVars,
    inputVars,
    pstoreVars>>
notStoreVars == <<cacheVars, indexVars, indexingVars, uploadVars,
                  downloadVars, hookVars, profileVars, lockVars,
    connVars,
    inputVars,
    pstoreVars>>
notProfileVars == <<indexVars, indexingVars, uploadVars, downloadVars,
                    hookVars, storeVars, lockVars,
    connVars,
    inputVars,
    pstoreVars>>
notLockVars == <<cacheVars, indexVars, indexingVars, uploadVars,
                 downloadVars, hookVars, storeVars, profileVars,
    connVars,
    inputVars,
    pstoreVars>>

notConnVars == <<cacheVars, indexVars, indexingVars, uploadVars, downloadVars, hookVars, storeVars, profileVars, lockVars,
    inputVars,
    pstoreVars>>

notInputVars == <<cacheVars, indexVars, indexingVars, uploadVars, downloadVars, hookVars, storeVars, profileVars, lockVars, connVars,
    pstoreVars>>

notPstoreVars == <<cacheVars, indexVars, indexingVars, uploadVars, downloadVars, hookVars, storeVars, profileVars, lockVars, connVars, inputVars>>

vars == <<cacheVars, indexVars, indexingVars, uploadVars, downloadVars,
          hookVars, storeVars, profileVars, lockVars,
    connVars,
    inputVars,
    pstoreVars>>

\* ------------------------------------------------------------------------
\* S3: list_objects_v2 (s3_adapter.rs list_objects)
\* ------------------------------------------------------------------------
\* position of the first '/' of s at or after position from, 0 when none
FindSlashFrom(s, from) ==
    LET hits == {i \in from..Len(s) : s[i] = Slash}
    IN  IF hits = {} THEN 0 ELSE CHOOSE i \in hits : \A j \in hits : i <= j

\* the entry under which S3 reports key k: the key itself, or with a
\* delimiter the common prefix up to the first '/' after the request prefix
ListEntry(k, prefix, delim) ==
    LET pos == FindSlashFrom(k, Len(prefix) + 1)
    IN  IF delim /\ pos # 0 THEN SubSeq(k, 1, pos) ELSE k

\* ListObjectsResponse for (prefix, continuation_token, max_keys, delimiter);
\* the continuation token is the last entry of the previous page
ListObjectsV2(bucket, prefix, token, max_keys, delim) ==
    LET matching == {k \in bucket : StartsWith(k, prefix)}
        entries == {e \in {ListEntry(k, prefix, delim) : k \in matching} :
                        token = EmptyStr \/ StrLess(token, e)}
        sorted == SortStrs(entries)
        n == IF Len(sorted) < max_keys THEN Len(sorted) ELSE max_keys
        page == SubSeq(sorted, 1, n)
        isObj(e) == e \in matching /\ ListEntry(e, prefix, delim) = e
        truncated == Len(sorted) > max_keys
    IN  [objects |-> SelectSeq(page, isObj),
         common_prefixes |-> SelectSeq(page, LAMBDA e : ~isObj(e)),
         continuation_token |-> IF truncated THEN page[n] ELSE EmptyStr,
         is_truncated |-> truncated]

\* ------------------------------------------------------------------------
\* DatabaseManager (database.rs): statements over the tables
\* ------------------------------------------------------------------------
NewRow(complete, lastKey) == [is_complete |-> complete, last_indexed_key |-> lastKey]

HasRow(rows, prefix) == prefix \in DOMAIN rows

\* ensure_parent_prefixes_exist: INSERT OR IGNORE of every parent and of ''
EnsureParentPrefixesExist(rows, prefix) ==
    LET wanted == ParentChain(prefix) \cup {EmptyStr}
    IN  [p \in DOMAIN rows \cup wanted |->
            IF p \in DOMAIN rows THEN rows[p] ELSE NewRow(FALSE, EmptyStr)]

\* upsert_prefix_status: parents first, then INSERT .. ON CONFLICT DO UPDATE
UpsertPrefixStatus(rows, prefix, row) ==
    LET withParents == EnsureParentPrefixesExist(rows, prefix)
    IN  [p \in DOMAIN withParents \cup {prefix} |->
            IF p = prefix THEN row ELSE withParents[p]]

\* batch_upsert_prefix_status: the same INSERT .. ON CONFLICT per status,
\* in one transaction (statuses: prefix -> row)
BatchUpsertPrefixStatus(rows, statuses) ==
    [p \in DOMAIN rows \cup DOMAIN statuses |->
        IF p \in DOMAIN statuses THEN statuses[p] ELSE rows[p]]

\* UPDATE prefix_status SET is_complete = FALSE WHERE prefix IN (marked)
SetIncomplete(rows, marked) ==
    [p \in DOMAIN rows |->
        IF p \in marked THEN [rows[p] EXCEPT !.is_complete = FALSE] ELSE rows[p]]

\* mark_prefix_incomplete
MarkPrefixIncomplete(rows, prefix) == SetIncomplete(rows, {prefix})

\* mark_prefix_and_ancestors_incomplete: prefix, its parents and ''
AncestorSet(prefix) == {prefix} \cup ParentChain(prefix) \cup {EmptyStr}

MarkRootOnlyIncomplete(rows, prefix) ==
    SetIncomplete(rows, {EmptyStr})

MarkPrefixAndAncestorsIncomplete(rows, prefix) ==
    SetIncomplete(rows, AncestorSet(prefix))

\* delete_prefix_status
DeletePrefixStatus(rows, prefix) ==
    [p \in DOMAIN rows \ {prefix} |-> rows[p]]

\* cleanup_orphan_prefix_status: rows other than '' with no object LIKE prefix%
CleanupOrphanPrefixStatus(rows, objs) ==
    [p \in {q \in DOMAIN rows :
                q = EmptyStr \/ \E k \in objs : LikePrefix(k, q)} |-> rows[p]]

\* delete_objects_by_prefix: DELETE .. WHERE key LIKE prefix%
DeleteObjectsByPrefix(objs, prefix) == {k \in objs : ~LikePrefix(k, prefix)}

\* sync_prefix_objects: DELETE .. WHERE parent_prefix = prefix AND key NOT IN keys
DbSyncPrefixObjects(objs, prefix, current_keys) ==
    {k \in objs : ~(ExtractParentPrefix(k) = prefix /\ k \notin current_keys)}

\* is_folder of an indexed row
IsFolder(k) == k # EmptyStr /\ k[Len(k)] = Slash

\* calculate_all_prefix_stats_batch: the parent prefixes in the GROUP BY
AllPrefixStatsBatch(objs) ==
    {ExtractParentPrefix(k) :
        k \in {o \in objs : ExtractParentPrefix(o) # EmptyStr /\ ~IsFolder(o)}}

\* split('/').next(): the key up to its first '/'
FirstSegment(s) ==
    LET pos == FindSlashFrom(s, 1)
    IN  IF pos = 0 THEN s ELSE SubSeq(s, 1, pos - 1)

WatermarkNever(rows, prefix) == FALSE

\* is_prefix_complete, second shortcut: the root row's last_indexed_key lies
\* behind the prefix
WatermarkPast(rows, prefix) ==
    /\ prefix # EmptyStr
    /\ HasRow(rows, EmptyStr)
    /\ rows[EmptyStr].last_indexed_key # EmptyStr
    /\ LET last_key == rows[EmptyStr].last_indexed_key
       IN  \/ StrLess(TrimEndSlash(prefix), FirstSegment(last_key))
           \/ StrLess(prefix, last_key) /\ ~StartsWith(last_key, prefix)

\* is_prefix_complete without its first shortcut
IsPrefixCompleteByRows(info, rows, objs, prefix) ==
    IF WatermarkPast(rows, prefix) THEN TRUE
    ELSE IF ~HasRow(rows, prefix) THEN FALSE
    ELSE IF ~rows[prefix].is_complete THEN FALSE
    ELSE IF \E q \in DOMAIN rows :
                LikePrefix(q, prefix) /\ q # prefix /\ ~rows[q].is_complete
      THEN FALSE
    ELSE ~\E o \in objs :
            /\ LikePrefix(o, prefix)
            /\ ExtractParentPrefix(o) # prefix
            /\ ExtractParentPrefix(o) # EmptyStr
            /\ ~HasRow(rows, ExtractParentPrefix(o))

\* is_prefix_complete
IsPrefixComplete(info, rows, objs, prefix) ==
    IF info.present /\ info.initial_index_completed THEN TRUE
    ELSE IF WatermarkPast(rows, prefix) THEN TRUE
    ELSE IF ~HasRow(rows, prefix) THEN FALSE
    ELSE IF ~rows[prefix].is_complete THEN FALSE
    ELSE IF \E q \in DOMAIN rows :
                LikePrefix(q, prefix) /\ q # prefix /\ ~rows[q].is_complete
      THEN FALSE
    ELSE ~\E o \in objs :
            /\ LikePrefix(o, prefix)
            /\ ExtractParentPrefix(o) # prefix
            /\ ExtractParentPrefix(o) # EmptyStr
            /\ ~HasRow(rows, ExtractParentPrefix(o))

\* IndexManager::is_bucket_complete (the is_bucket_index_complete command)
IsBucketComplete(info, rows, objs) == IsPrefixComplete(info, rows, objs, EmptyStr)

\* calculate_bucket_stats, third component: COALESCE(initial_index_completed,
\* FALSE) of the bucket_info row, false without a row
BucketStatsComplete(info) == info.present /\ info.initial_index_completed

\* ------------------------------------------------------------------------
\* IndexManager (index_manager.rs): results as [objects, rows]
\* ------------------------------------------------------------------------
\* add_object: upsert the row, then mark the parent and its ancestors (or
\* the root row for a root-level key) incomplete
AddObject(objs, rows, key) ==
    LET parent == ExtractParentPrefix(key)
    IN  [objects |-> objs \cup {key},
         rows |-> IF parent # EmptyStr
                    THEN MarkPrefixAndAncestorsIncomplete(rows, parent)
                    ELSE MarkPrefixIncomplete(rows, EmptyStr)]

\* remove_object: delete the row if present, mark ancestors incomplete anyway
RemoveObject(objs, rows, key) ==
    LET parent == ExtractParentPrefix(key)
    IN  [objects |-> objs \ {key},
         rows |-> IF parent # EmptyStr
                    THEN MarkPrefixAndAncestorsIncomplete(rows, parent)
                    ELSE MarkPrefixIncomplete(rows, EmptyStr)]

\* remove_folder: delete_objects_by_prefix, mark the parent of the prefix and
\* its ancestors incomplete, delete the prefix's own status
RemoveFolder(objs, rows, prefix) ==
    LET parent == ExtractParentPrefix(prefix)
    IN  [objects |-> DeleteObjectsByPrefix(objs, prefix),
         rows |-> DeletePrefixStatus(
                      MarkPrefixAndAncestorsIncomplete(rows, parent), prefix)]

\* sync_prefix_objects: on deletions mark the ancestors incomplete and clean
\* up orphan prefix_status rows
SyncPrefixObjects(objs, rows, prefix, current_keys) ==
    LET kept == DbSyncPrefixObjects(objs, prefix, current_keys)
    IN  [objects |-> kept,
         rows |-> IF kept # objs
                    THEN CleanupOrphanPrefixStatus(
                             MarkPrefixAndAncestorsIncomplete(rows, prefix), kept)
                    ELSE rows]

\* the loop over response.common_prefixes: a row, incomplete, for each
\* folder that has none
RECURSIVE DiscoverFolders(_, _)
DiscoverFolders(rows, folders) ==
    IF folders = << >> THEN rows
    ELSE LET f == Head(folders)
             next == IF HasRow(rows, f) THEN rows
                     ELSE UpsertPrefixStatus(rows, f, NewRow(FALSE, EmptyStr))
         IN  DiscoverFolders(next, Tail(folders))

LastOrEmpty(q) == IF q = << >> THEN EmptyStr ELSE q[Len(q)]

UpdateAlwaysComplete(objs, rows, prefix, response) ==
    LET indexed == objs \cup SeqToSet(response.objects)
        discovered == DiscoverFolders(rows, response.common_prefixes)
    IN  [objects |-> indexed,
         rows |-> UpsertPrefixStatus(discovered, prefix,
                      NewRow(TRUE, LastOrEmpty(response.objects)))]

\* update_from_list_response
UpdateFromListResponse(objs, rows, prefix, response) ==
    LET indexed == objs \cup SeqToSet(response.objects)
        discovered == DiscoverFolders(rows, response.common_prefixes)
        status ==
            IF HasRow(discovered, prefix)
              THEN IF ~response.is_truncated
                     THEN [discovered[prefix] EXCEPT !.is_complete = TRUE]
                     ELSE discovered[prefix]
              ELSE NewRow(~response.is_truncated, LastOrEmpty(response.objects))
    IN  [objects |-> indexed,
         rows |-> UpsertPrefixStatus(discovered, prefix, status)]

\* ------------------------------------------------------------------------
\* The tables with their bucket_name column: objects as a multiset of rows
\* (row -> number of copies), prefix_status and bucket_info per bucket
\* ------------------------------------------------------------------------
BucketOne == "b1"
BucketTwo == "b2"
Buckets == {BucketOne, BucketTwo}

\* version_id: NULL for the rows from_s3_object builds, or a version id
NullVersion == "null"
VersionOne == "v1"

ObjRow(bucket, key, version_id, size) ==
    [bucket_name |-> bucket, key |-> key, version_id |-> version_id,
     size |-> size]

AbsentInfo == [present |-> FALSE, initial_index_completed |-> FALSE,
               initial_index_requests |-> 0]

NoRows == [p \in {} |-> NewRow(FALSE, EmptyStr)]

EmptyTable == [r \in {} |-> 0]

EmptyStore == [objects |-> EmptyTable,
               prefix_status |-> [b \in Buckets |-> NoRows],
               bucket_info |-> [b \in Buckets |-> AbsentInfo]]

\* DELETE FROM objects WHERE cond: gone is the set of rows cond selects
DeleteRows(tbl, gone) == [r \in DOMAIN tbl \ gone |-> tbl[r]]

RECURSIVE SumCopies(_, _)
SumCopies(tbl, S) ==
    IF S = {} THEN 0
    ELSE LET r == CHOOSE q \in S : TRUE
         IN  tbl[r] + SumCopies(tbl, S \ {r})

RECURSIVE SumSize(_, _)
SumSize(tbl, S) ==
    IF S = {} THEN 0
    ELSE LET r == CHOOSE q \in S : TRUE
         IN  tbl[r] * r.size + SumSize(tbl, S \ {r})

\* SELECT COUNT(*) .. WHERE cond
\* INSERT of one row
InsertRow(tbl, row) ==
    [r \in DOMAIN tbl \cup {row} |->
        IF r = row THEN (IF row \in DOMAIN tbl THEN tbl[row] ELSE 0) + 1
        ELSE tbl[r]]

NoConflict(old, new) == FALSE

\* the unique index of table objects: (profile, bucket, key, version_id),
\* NULL version ids of one key colliding
UniqueConflict(old, new) ==
    /\ old.bucket_name = new.bucket_name
    /\ old.key = new.key
    /\ old.version_id = new.version_id

\* upsert_object: INSERT OR REPLACE, the rows in conflict go first
UpsertObject(tbl, row) ==
    InsertRow(DeleteRows(tbl, {q \in DOMAIN tbl : UniqueConflict(q, row)}), row)

\* upsert_objects_batch: one INSERT OR REPLACE per row, in one transaction;
\* returns the number of rows given
RECURSIVE UpsertObjectsBatch(_, _)
UpsertObjectsBatch(tbl, rows) ==
    IF rows = << >> THEN tbl
    ELSE UpsertObjectsBatch(UpsertObject(tbl, Head(rows)), Tail(rows))

\* delete_object: every row of the key, whatever its version
DeleteObject(tbl, bucket, key) ==
    DeleteRows(tbl, {q \in DOMAIN tbl : q.bucket_name = bucket /\ q.key = key})

\* delete_objects_by_prefix with the bucket column
DeleteObjectsByPrefixIn(tbl, bucket, prefix) ==
    DeleteRows(tbl, {q \in DOMAIN tbl : q.bucket_name = bucket
                                   /\ LikePrefix(q.key, prefix)})

SyncEveryBucket(tbl, bucket, prefix, current_keys) ==
    DeleteRows(tbl, {q \in DOMAIN tbl : /\ ExtractParentPrefix(q.key) = prefix
                                /\ q.key \notin current_keys})

\* sync_prefix_objects with the bucket column: both branches delete the rows
\* of the bucket with this parent_prefix whose key is not in current_keys
SyncPrefixObjectsIn(tbl, bucket, prefix, current_keys) ==
    DeleteRows(tbl, {q \in DOMAIN tbl : /\ q.bucket_name = bucket
                                /\ ExtractParentPrefix(q.key) = prefix
                                /\ q.key \notin current_keys})

\* calculate_prefix_stats: <<COUNT(*), SUM(size)>> of the rows LIKE prefix%
CalculatePrefixStats(tbl, bucket, prefix) ==
    LET hit == {q \in DOMAIN tbl : /\ q.bucket_name = bucket
                                   /\ LikePrefix(q.key, prefix)
                                   /\ ~IsFolder(q.key)}
    IN  <<SumCopies(tbl, hit), SumSize(tbl, hit)>>

\* calculate_bucket_stats: <<COUNT(*), SUM(size)>> of the bucket
CalculateBucketStats(tbl, bucket) ==
    LET hit == {q \in DOMAIN tbl : q.bucket_name = bucket /\ ~IsFolder(q.key)}
    IN  <<SumCopies(tbl, hit), SumSize(tbl, hit)>>

\* the keys of a bucket's rows
KeysIn(tbl, bucket) == {q.key : q \in {r \in DOMAIN tbl : r.bucket_name = bucket}}

\* the statement of clear_bucket_index that fails, "commit" for the commit,
\* "none" when all succeed
ClearFailures == {"none", "objects", "prefix_status", "bucket_info", "commit"}

\* the tables as the statements of clear_bucket_index before the failing one
\* leave them
ClearStatements(st, bucket, failing) ==
    LET s1 == IF failing = "objects" THEN st
              ELSE [st EXCEPT !.objects =
                        DeleteRows(@, {q \in DOMAIN @ : q.bucket_name = bucket})]
        s2 == IF failing \in {"objects", "prefix_status"} THEN s1
              ELSE [s1 EXCEPT !.prefix_status[bucket] = NoRows]
    IN  IF failing \in {"objects", "prefix_status", "bucket_info"} THEN s2
        ELSE [s2 EXCEPT !.bucket_info[bucket] = AbsentInfo]

ClearWithoutTransaction(st, bucket, failing) ==
    ClearStatements(st, bucket, failing)

\* clear_bucket_index: three DELETEs in one transaction; `?` on a failing
\* statement or commit drops the Transaction, which rolls back
ClearBucketIndex(st, bucket, failing) ==
    IF failing = "none" THEN ClearStatements(st, bucket, failing) ELSE st

\* add_object on the tables
StoreAddObject(st, bucket, key, size) ==
    [st EXCEPT
        !.objects = UpsertObject(@, ObjRow(bucket, key, NullVersion, size)),
        !.prefix_status[bucket] = AddObject({}, @, key).rows]

StoreRemoveObjectKeepsRow(st, bucket, key) ==
    [st EXCEPT !.prefix_status[bucket] = RemoveObject({}, @, key).rows]

\* remove_object on the tables
StoreRemoveObject(st, bucket, key) ==
    [st EXCEPT
        !.objects = DeleteObject(@, bucket, key),
        !.prefix_status[bucket] = RemoveObject({}, @, key).rows]

\* remove_folder on the tables
StoreRemoveFolder(st, bucket, prefix) ==
    [st EXCEPT
        !.objects = DeleteObjectsByPrefixIn(@, bucket, prefix),
        !.prefix_status[bucket] = RemoveFolder({}, @, prefix).rows]

\* sync_prefix_objects on the tables: the rows deleted, and when there are
\* any the ancestors marked and the orphan prefix_status rows cleaned up
StoreSyncPrefixObjects(st, bucket, prefix, current_keys) ==
    [st EXCEPT
        !.objects = SyncPrefixObjectsIn(@, bucket, prefix, current_keys),
        !.prefix_status[bucket] =
            SyncPrefixObjects(KeysIn(st.objects, bucket), @, prefix,
                              current_keys).rows]

\* update_from_list_response on the tables; response.objects are
\* <<key, size>> pairs
StoreUpdateFromListResponse(st, bucket, prefix, response) ==
    LET keys == [i \in 1..Len(response.objects) |-> response.objects[i][1]]
        indexed == [i \in 1..Len(response.objects) |->
                       ObjRow(bucket, response.objects[i][1], NullVersion,
                              response.objects[i][2])]
    IN  [st EXCEPT
            !.objects = UpsertObjectsBatch(@, indexed),
            !.prefix_status[bucket] =
                UpdateFromListResponse({}, @, prefix,
                    [response EXCEPT !.objects = keys]).rows]

\* ------------------------------------------------------------------------
\* IndexManager::initial_index_bucket: the locals of one run and its steps
\* ------------------------------------------------------------------------
NewRun == [requests_made |-> 0, continuation_token |-> EmptyStr,
           last_key |-> EmptyStr, total_indexed |-> 0,
           is_complete |-> FALSE, was_cancelled |-> FALSE]

LoopDecisionUncapped(run, max_requests, cancel_pending) ==
    IF cancel_pending THEN "cancel" ELSE "list"

\* top of the loop: the cancel probe, then the request cap
LoopDecision(run, max_requests, cancel_pending) ==
    IF cancel_pending THEN "cancel"
    ELSE IF max_requests > 0 /\ run.requests_made >= max_requests THEN "cap"
    ELSE "list"

RunAfterPageAlwaysComplete(run, response) ==
    [run EXCEPT
        !.requests_made = @ + 1,
        !.last_key = IF response.objects # << >>
                       THEN LastOrEmpty(response.objects) ELSE @,
        !.total_indexed = @ + Len(response.objects),
        !.is_complete = TRUE,
        !.continuation_token = IF response.is_truncated
                                 THEN response.continuation_token ELSE @]

\* one page: count the request, remember the last key, upsert the batch,
\* stop on a page that is not truncated or carries no token
RunAfterPage(run, response) ==
    [run EXCEPT
        !.requests_made = @ + 1,
        !.last_key = IF response.objects # << >>
                       THEN LastOrEmpty(response.objects) ELSE @,
        !.total_indexed = @ + Len(response.objects),
        !.is_complete = ~response.is_truncated,
        !.continuation_token = IF response.is_truncated
                                 THEN response.continuation_token ELSE @]

\* whether the loop goes on after the page
ContinuesAfterPage(response) ==
    response.is_truncated /\ response.continuation_token # EmptyStr

\* after the loop: prefix_status rows of a complete or incomplete run, then
\* the root row (root_response is the delimiter listing of the root)
RunFinishRows(rows, objs, run, root_response) ==
    LET statuses == [p \in AllPrefixStatsBatch(objs) |-> NewRow(TRUE, EmptyStr)]
        folderRows == IF run.is_complete
                        THEN BatchUpsertPrefixStatus(rows, statuses)
                        ELSE DiscoverFolders(rows, root_response.common_prefixes)
    IN  UpsertPrefixStatus(folderRows, EmptyStr,
                           NewRow(run.is_complete, run.last_key))

\* the bucket_info row written at the end of the run
RunFinishInfo(run) ==
    [present |-> TRUE,
     initial_index_completed |-> run.is_complete,
     initial_index_requests |->
         IF run.is_complete THEN run.requests_made ELSE run.requests_made + 1]

\* the whole loop against an unchanging bucket; the cancel signal is seen by
\* the probe that follows cancel_after requests (never when cancel_after < 0)
RECURSIVE RunLoop(_, _, _, _, _, _)
RunLoop(run, objs, bucket, max_requests, batch_size, cancel_after) ==
    LET decision == LoopDecision(run, max_requests,
                                 run.requests_made = cancel_after)
        response == ListObjectsV2(bucket, EmptyStr, run.continuation_token,
                                  batch_size, FALSE)
        after == RunAfterPage(run, response)
        indexed == objs \cup SeqToSet(response.objects)
    IN  IF decision = "cancel"
          THEN [run |-> [run EXCEPT !.was_cancelled = TRUE], objects |-> objs]
        ELSE IF decision = "cap"
          THEN [run |-> run, objects |-> objs]
        ELSE IF ContinuesAfterPage(response)
          THEN RunLoop(after, indexed, bucket, max_requests, batch_size,
                       cancel_after)
          ELSE [run |-> after, objects |-> indexed]

\* The AppState mutexes (commands.rs): the lock, unlock and .await
\* statements of each command and spawned task, in program order
\* ------------------------------------------------------------------------
Mutexes == {"profiles", "active_uploads", "active_downloads", "active_indexing"}

Lock(m) == <<"lock", m>>
Unlock(m) == <<"unlock", m>>
Await == <<"await", "none">>

\* upload_file: the profile lookup, then (the task spawned) the insert
UploadFileProgram ==
    <<Lock("profiles"), Unlock("profiles"),
      Lock("active_uploads"), Unlock("active_uploads")>>

\* the task of upload_file: perform_upload(..).await, then the remove
UploadTaskProgram ==
    <<Await, Lock("active_uploads"), Unlock("active_uploads")>>

CancelUploadAwaitsLocked ==
    <<Lock("active_uploads"), Await, Unlock("active_uploads")>>

\* cancel_upload: the guard lives from the lookup to the end of the function
CancelUploadProgram ==
    <<Lock("active_uploads"), Unlock("active_uploads")>>

\* start_initial_index: the check, the profile lookup, from_profile().await,
\* the insert, initial_index_bucket().await, the remove
StartInitialIndexProgram ==
    <<Lock("active_indexing"), Unlock("active_indexing"),
      Lock("profiles"), Unlock("profiles"), Await,
      Lock("active_indexing"), Unlock("active_indexing"), Await,
      Lock("active_indexing"), Unlock("active_indexing")>>

\* cancel_indexing: the remove
CancelIndexingProgram ==
    <<Lock("active_indexing"), Unlock("active_indexing")>>

\* download_file: the profile lookup, from_profile().await,
\* get_object_size().await, then (the task spawned) the insert
DownloadFileProgram ==
    <<Lock("profiles"), Unlock("profiles"), Await, Await,
      Lock("active_downloads"), Unlock("active_downloads")>>

\* the task of download_file: get_object_stream, File::create, read,
\* write_all and flush awaited, then the remove
DownloadTaskProgram ==
    <<Await, Await, Await, Await, Await,
      Lock("active_downloads"), Unlock("active_downloads")>>

\* cancel_download: the remove
CancelDownloadProgram ==
    <<Lock("active_downloads"), Unlock("active_downloads")>>

Programs ==
    [upload_file |-> UploadFileProgram,
     upload_task |-> UploadTaskProgram,
     cancel_upload |-> CancelUploadProgram,
     start_initial_index |-> StartInitialIndexProgram,
     cancel_indexing |-> CancelIndexingProgram,
     download_file |-> DownloadFileProgram,
     download_task |-> DownloadTaskProgram,
     cancel_download |-> CancelDownloadProgram]

LockProcs == DOMAIN Programs

\* ------------------------------------------------------------------------
\* Input validation (validation.rs)
\* ------------------------------------------------------------------------
\* char::is_whitespace on the characters of the model: tab, LF, VT, FF, CR
\* and space
IsWhitespace(c) == c \in {9, 10, 11, 12, 13, 32}

\* str::trim
RECURSIVE Trim(_)
Trim(s) ==
    IF s = EmptyStr THEN s
    ELSE IF IsWhitespace(Head(s)) THEN Trim(Tail(s))
    ELSE IF IsWhitespace(s[Len(s)]) THEN Trim(SubSeq(s, 1, Len(s) - 1))
    ELSE s

\* char::is_control: the C0 controls, DEL and the C1 controls
IsControl(c) == c < 32 \/ (c >= 127 /\ c <= 159)

IsDigit(c) == c >= 48 /\ c <= 57

IsLowercase(c) == c >= 97 /\ c <= 122

\* the pieces of s between the occurrences of sep
RECURSIVE SplitOn(_, _)
SplitOn(s, sep) ==
    LET hits == {i \in 1..Len(s) : s[i] = sep}
    IN  IF hits = {} THEN <<s>>
        ELSE LET i == CHOOSE h \in hits : \A j \in hits : h <= j
             IN  <<SubSeq(s, 1, i - 1)>> \o SplitOn(SubSeq(s, i + 1, Len(s)), sep)

RECURSIVE DecimalValue(_)
DecimalValue(s) ==
    IF s = EmptyStr THEN 0
    ELSE 10 * DecimalValue(SubSeq(s, 1, Len(s) - 1)) + (s[Len(s)] - 48)

\* name.parse::<Ipv4Addr>().is_ok(): four decimal octets without leading
\* zeros, separated by dots
ParsesAsIpv4(s) ==
    LET parts == SplitOn(s, 46)
    IN  /\ Len(parts) = 4
        /\ \A i \in 1..4 :
              /\ Len(parts[i]) \in 1..3
              /\ \A j \in 1..Len(parts[i]) : IsDigit(parts[i][j])
              /\ (Len(parts[i]) > 1 => parts[i][1] # 48)
              /\ DecimalValue(parts[i]) <= 255

\* str::contains for a pattern of two characters
ContainsPair(s, a, b) == \E i \in 1..(Len(s) - 1) : s[i] = a /\ s[i + 1] = b

\* validate_bucket_name(name).is_ok(): the checks run on name.trim()
ValidateBucketName(bucket_name) ==
    LET name == Trim(bucket_name)
    IN  /\ name # EmptyStr
        /\ Len(name) >= 3
        /\ Len(name) <= 63
        /\ ~ParsesAsIpv4(name)
        /\ \A i \in 1..Len(name) :
              IsLowercase(name[i]) \/ IsDigit(name[i]) \/ name[i] \in {46, 45}
        /\ (IsLowercase(name[1]) \/ IsDigit(name[1]))
        /\ (IsLowercase(name[Len(name)]) \/ IsDigit(name[Len(name)]))
        /\ ~ContainsPair(name, 46, 46)
        /\ ~ContainsPair(name, 46, 45)
        /\ ~ContainsPair(name, 45, 46)

\* validate_object_key(key).is_ok(): the checks run on key.trim()
ValidateObjectKey(object_key) ==
    LET key == Trim(object_key)
    IN  /\ key # EmptyStr
        /\ Len(key) <= 1024
        /\ \A i \in 1..Len(key) : ~IsControl(key[i])

\* bucket names given to the commands: "abc", "a-b", "ab", "Abc", "1.2.3.4",
\* "a.-b", "abc " and ""
BucketInputs ==
    {<<97, 98, 99>>, <<97, 45, 98>>, <<97, 98>>, <<65, 98, 99>>,
     <<49, 46, 50, 46, 51, 46, 52>>, <<97, 46, 45, 98>>, <<97, 98, 99, 32>>,
     EmptyStr}

\* object keys given to the commands: "x", "a/b/x", "", " ", "x^Ay" (a control
\* character inside) and "x\n"
KeyInputs ==
    {<<120>>, <<97, 47, 98, 47, 120>>, EmptyStr, <<32>>, <<120, 1, 121>>,
     <<120, 10>>}

\* ------------------------------------------------------------------------
\* ProfileStore (profiles.rs), Profile::to_encrypted (models.rs) and
\* Crypto::encrypt (crypto.rs)
\* ------------------------------------------------------------------------
\* secret_key values and session_token values (None, Some(""), Some("t"))
SecretKeys == {"k1", "k2"}

SessionTokens == {"none", "", "t"}

\* the random nonces of two encryptions
Nonces == {1, 2}

ProfileInputs ==
    [id : Profiles, secret_key : SecretKeys, session_token : SessionTokens]

\* Crypto::encrypt: "" stays "", otherwise base64(nonce ++ ciphertext)
Encrypt(plaintext, nonce) ==
    IF plaintext = "" THEN "" ELSE <<nonce, plaintext>>

\* Crypto::encrypt_option: None and Some("") give None
EncryptOption(plaintext, nonce) ==
    IF plaintext \in {"none", ""} THEN "none" ELSE Encrypt(plaintext, nonce)

\* Profile::to_encrypted
ToEncrypted(profile, nonces) ==
    [id |-> profile.id,
     secret_key_encrypted |-> Encrypt(profile.secret_key, nonces[1]),
     session_token_encrypted |-> EncryptOption(profile.session_token, nonces[2]),
     encrypted |-> TRUE]

NoProfiles == [id \in {} |-> "none"]

\* ProfileStore::new
ProfileStoreNew == [profiles |-> NoProfiles, decrypted_cache |-> NoProfiles]

\* HashMap::insert and HashMap::remove
MapInsert(map, k, v) == [x \in DOMAIN map \cup {k} |-> IF x = k THEN v ELSE map[x]]

MapRemove(map, k) == [x \in DOMAIN map \ {k} |-> map[x]]

\* ProfileStore::get: Ok(profile) as {profile}, Err(ProfileNotFound) as {}
ProfileStoreGet(st, id) ==
    IF id \in DOMAIN st.decrypted_cache THEN {st.decrypted_cache[id]}
    ELSE {}

\* ProfileStore::list, as a set
ProfileStoreList(st) == {st.decrypted_cache[id] : id \in DOMAIN st.decrypted_cache}

\* an upsert that leaves the decrypted cache alone
UpsertSkipsCache(st, profile, nonces, encrypt_ok) ==
    IF ~encrypt_ok THEN st
    ELSE [st EXCEPT !.profiles = MapInsert(@, profile.id, ToEncrypted(profile, nonces))]

\* ProfileStore::upsert up to self.save(): to_encrypted(crypto)?, then the
\* inserts into profiles and decrypted_cache
ProfileStoreUpsert(st, profile, nonces, encrypt_ok) ==
    IF ~encrypt_ok THEN st
    ELSE [profiles |-> MapInsert(st.profiles, profile.id,
                                 ToEncrypted(profile, nonces)),
          decrypted_cache |-> MapInsert(st.decrypted_cache, profile.id, profile)]

\* ProfileStore::delete up to self.save(): profiles.remove(id).ok_or(..)?,
\* then decrypted_cache.remove(id)
ProfileStoreDelete(st, id) ==
    IF id \notin DOMAIN st.profiles THEN st
    ELSE [profiles |-> MapRemove(st.profiles, id),
          decrypted_cache |-> MapRemove(st.decrypted_cache, id)]

\* ------------------------------------------------------------------------
\* test_connection inputs and response (models.rs TestConnectionResponse)
\* ------------------------------------------------------------------------
\* Profile.endpoint: None or Some(url)
Endpoints == {"none", "custom"}

\* the SdkError of a failed list_buckets, kept as error_str
RequestErrors == {"dispatch_failure", "access_denied"}

\* timeout(30 s, list_buckets().send()): Ok(Ok(_)), Ok(Err(e)), Err(Elapsed)
AttemptOutcomes == {"ok", "timeout"} \cup RequestErrors

TestConnectionResponse(success, message, bucket_count, suggest_path_style) ==
    [success |-> success, message |-> message, bucket_count |-> bucket_count,
     suggest_path_style |-> suggest_path_style]

NoResponse == TestConnectionResponse(FALSE, "none", "none", "none")

\* ------------------------------------------------------------------------
\* ManagedCache (cache_manager.rs)
\* ------------------------------------------------------------------------
InitCacheVars ==
    /\ cache = [k \in Profiles |-> 0]
    /\ cpc = [t \in Threads |-> "idle"]
    /\ ckey = [t \in Threads |-> 1]
    /\ cgen = [t \in Threads |-> 0]
    /\ cval = [t \in Threads |-> 0]
    /\ inits = 0
    /\ removals = [k \in Profiles |-> 0]

InitIndexVars ==
    /\ s3 = {}
    /\ objects = {}
    /\ prefix_status = [p \in {} |-> NewRow(FALSE, EmptyStr)]
    /\ bucket_info = [present |-> FALSE, initial_index_completed |-> FALSE,
                      initial_index_requests |-> 0]

IndexStatuses == {"Starting", "Indexing", "Completed", "Partial", "Cancelled",
                  "Failed"}

InitIndexingVars ==
    /\ active_indexing = 0
    /\ ipc = [c \in Calls |-> "idle"]
    /\ icfg = [c \in Calls |-> <<0, 1>>]
    /\ irun = [c \in Calls |-> NewRun]
    /\ icancel = [c \in Calls |-> FALSE]
    /\ iresult = [c \in Calls |-> "none"]
    /\ index_events = [st \in IndexStatuses |-> 0]
    /\ run_events = [c \in Calls |-> "none"]
    /\ cancel_indexing_result = "none"

InitUploadVars ==
    /\ upc = "idle"
    /\ utask = "none"
    /\ uinput = <<KeyX, 0, 0>>
    /\ upart = 0
    /\ active_uploads = FALSE
    /\ ulock = FALSE
    /\ usignal = FALSE
    /\ uabort = FALSE
    /\ ucancel = "idle"
    /\ uevents = << >>
    /\ uevent_bytes = << >>
    /\ uploaded_bytes = 0
    /\ uhook = "none"
    /\ mp = [created |-> FALSE, completed |-> FALSE, abort_issued |-> FALSE,
             parts |-> << >>]

InitDownloadVars ==
    /\ dpc = "idle"
    /\ dtask = "none"
    /\ active_downloads = FALSE
    /\ dsignal = FALSE
    /\ dabort = FALSE
    /\ dcancel = "idle"
    /\ devents = << >>
    /\ devent_bytes = << >>
    /\ dfile = FALSE
    /\ dchunks = 0

InitHookVars ==
    /\ cmd_result = "none"
    /\ query_prefix = EmptyStr
    /\ query_answer = "none"

InitStoreVars ==
    /\ store = <<EmptyStore>>
    /\ calls = << >>

InitProfileVars ==
    /\ profiles = {}
    /\ db_cache = [k \in Profiles |-> FALSE]
    /\ last_cmd = [op |-> "none", profile_id |-> 1, result |-> "none"]

InitLockVars ==
    /\ lpc = [p \in LockProcs |-> 1]
    /\ holder = [m \in Mutexes |-> "free"]

InitConnVars ==
    /\ tpc = "idle"
    /\ tprofile = [path_style |-> FALSE, endpoint |-> "none"]
    /\ trequests = << >>
    /\ tfirst = "none"
    /\ tretry = "none"
    /\ tresponse = NoResponse
    /\ temits = << >>

InitInputVars ==
    /\ vcmd = [op |-> "none", bucket |-> EmptyStr, key |-> EmptyStr,
               result |-> "none"]
    /\ vrequests = << >>
    /\ vhook = "none"

InitPstoreVars ==
    /\ pstore = <<ProfileStoreNew>>
    /\ pcalls = << >>
    /\ pdisk = NoProfiles

InitOthers ==
    /\ InitIndexingVars /\ InitUploadVars /\ InitDownloadVars
    /\ InitHookVars /\ InitStoreVars /\ InitProfileVars /\ InitLockVars /\ InitConnVars /\ InitInputVars /\ InitPstoreVars

InitCache == InitCacheVars /\ InitIndexVars /\ InitOthers

\* get_or_insert_with, first statement: self.get(&key); a hit returns at once
GetOrInsertLookup(t, k) ==
    /\ cpc[t] = "idle"
    /\ ckey' = [ckey EXCEPT ![t] = k]
    /\ cgen' = [cgen EXCEPT ![t] = removals[k]]
    /\ IF cache[k] # 0
         THEN /\ cpc' = [cpc EXCEPT ![t] = "done"]
              /\ cval' = [cval EXCEPT ![t] = cache[k]]
         ELSE /\ cpc' = [cpc EXCEPT ![t] = "init"]
              /\ cval' = [cval EXCEPT ![t] = 0]
    /\ UNCHANGED <<cache, inits, removals>>
    /\ UNCHANGED notCacheVars

\* get_or_insert_with storing the outcome of init whatever it is
GetOrInsertInitCachesError(t) ==
    /\ cpc[t] = "init"
    /\ inits < MaxInits
    /\ inits' = inits + 1
    /\ \/ /\ cval' = [cval EXCEPT ![t] = inits + 1]
          /\ cpc' = [cpc EXCEPT ![t] = "insert"]
          /\ cache' = cache
       \/ /\ cval' = [cval EXCEPT ![t] = -1]
          /\ cpc' = [cpc EXCEPT ![t] = "done"]
          /\ cache' = [cache EXCEPT ![ckey[t]] = -1]
    /\ UNCHANGED <<ckey, cgen, removals>>
    /\ UNCHANGED notCacheVars

\* get_or_insert_with, cache miss: let value = init()?  (a fresh Arc each call)
GetOrInsertInit(t) ==
    /\ cpc[t] = "init"
    /\ inits < MaxInits
    /\ inits' = inits + 1
    /\ \/ /\ cval' = [cval EXCEPT ![t] = inits + 1]
          /\ cpc' = [cpc EXCEPT ![t] = "insert"]
       \/ /\ cval' = [cval EXCEPT ![t] = -1]
          /\ cpc' = [cpc EXCEPT ![t] = "done"]
    /\ UNCHANGED <<cache, ckey, cgen, removals>>
    /\ UNCHANGED notCacheVars

\* get_or_insert_with, cache miss: self.insert(key, value.clone()); Ok(value)
GetOrInsertStore(t) ==
    /\ cpc[t] = "insert"
    /\ cache' = [cache EXCEPT ![ckey[t]] = cval[t]]
    /\ cpc' = [cpc EXCEPT ![t] = "done"]
    /\ UNCHANGED <<ckey, cgen, cval, inits, removals>>
    /\ UNCHANGED notCacheVars

\* the caller takes its result and may call again
GetOrInsertReturn(t) ==
    /\ cpc[t] = "done"
    /\ cpc' = [cpc EXCEPT ![t] = "idle"]
    /\ cval' = [cval EXCEPT ![t] = 0]
    /\ UNCHANGED <<cache, ckey, cgen, inits, removals>>
    /\ UNCHANGED notCacheVars

\* ManagedCache::remove (close_index_manager)
CacheRemove(k) ==
    /\ removals[k] < MaxRemovals
    /\ cache' = [cache EXCEPT ![k] = 0]
    /\ removals' = [removals EXCEPT ![k] = @ + 1]
    /\ UNCHANGED <<cpc, ckey, cgen, cval, inits>>
    /\ UNCHANGED notCacheVars

NextCache ==
    \/ \E t \in Threads, k \in Profiles : GetOrInsertLookup(t, k)
    \/ \E t \in Threads : GetOrInsertInit(t)
    \/ \E t \in Threads : GetOrInsertStore(t)
    \/ \E t \in Threads : GetOrInsertReturn(t)
    \/ \E k \in Profiles : CacheRemove(k)

SpecCache == InitCache /\ [][NextCache]_vars

\* ------------------------------------------------------------------------
\* S3Adapter::test_connection_with_profile (s3_adapter.rs)
\* ------------------------------------------------------------------------
InitConnect == InitCacheVars /\ InitIndexVars /\ InitOthers

\* a new call: from_profile(profile), then list_buckets under a 30 s timeout
TestConnectionBegin(path_style, endpoint) ==
    /\ tpc = "idle"
    /\ Len(temits) < MaxTests
    /\ tpc' = "first"
    /\ tprofile' = [path_style |-> path_style, endpoint |-> endpoint]
    /\ trequests' = <<path_style>>
    /\ tfirst' = "none"
    /\ tretry' = "none"
    /\ tresponse' = NoResponse
    /\ UNCHANGED temits
    /\ UNCHANGED notConnVars

\* the first attempt retried with path_style on whenever it fails
FirstAttemptRetriesTimeout(outcome, n) ==
    /\ tpc = "first"
    /\ tfirst' = outcome
    /\ IF outcome = "ok"
         THEN /\ tresponse' = TestConnectionResponse(TRUE, "connected", n, "none")
              /\ tpc' = "done"
              /\ UNCHANGED trequests
         ELSE IF ~tprofile.path_style /\ tprofile.endpoint # "none"
                THEN /\ tpc' = "retry"
                     /\ trequests' = Append(trequests, TRUE)
                     /\ UNCHANGED tresponse
                ELSE /\ tresponse' = TestConnectionResponse(FALSE, outcome,
                                                            "none", "none")
                     /\ tpc' = "done"
                     /\ UNCHANGED trequests
    /\ UNCHANGED <<tprofile, tretry, temits>>
    /\ UNCHANGED notConnVars

\* `match result`: Err(_) is the timeout, Ok(Ok(output)) the bucket list,
\* Ok(Err(e)) the failed request, retried with path_style on when it was off
\* and the profile has an endpoint
FirstAttemptDone(outcome, n) ==
    /\ tpc = "first"
    /\ tfirst' = outcome
    /\ IF outcome = "timeout"
         THEN /\ tresponse' = TestConnectionResponse(FALSE, "timed_out",
                                                     "none", "none")
              /\ tpc' = "done"
              /\ UNCHANGED trequests
         ELSE IF outcome = "ok"
         THEN /\ tresponse' = TestConnectionResponse(TRUE, "connected", n, "none")
              /\ tpc' = "done"
              /\ UNCHANGED trequests
         ELSE IF ~tprofile.path_style /\ tprofile.endpoint # "none"
                THEN /\ tpc' = "retry"
                     /\ trequests' = Append(trequests, TRUE)
                     /\ UNCHANGED tresponse
                ELSE /\ tresponse' = TestConnectionResponse(FALSE, outcome,
                                                            "none", "none")
                     /\ tpc' = "done"
                     /\ UNCHANGED trequests
    /\ UNCHANGED <<tprofile, tretry, temits>>
    /\ UNCHANGED notConnVars

\* `match retry_result`: Ok(Ok(output)) suggests path_style, anything else
\* returns the error of the first attempt
RetryDone(outcome, n) ==
    /\ tpc = "retry"
    /\ tretry' = outcome
    /\ tresponse' = IF outcome = "ok"
                      THEN TestConnectionResponse(FALSE, "enable_path_style",
                                                  n, TRUE)
                      ELSE TestConnectionResponse(FALSE, tfirst, "none", "none")
    /\ tpc' = "done"
    /\ UNCHANGED <<tprofile, trequests, tfirst, temits>>
    /\ UNCHANGED notConnVars

\* test_connection (commands.rs) emits one metrics event for the response,
\* emit_success when response.success and emit_error otherwise, and returns
TestConnectionReturn ==
    /\ tpc = "done"
    /\ tpc' = "idle"
    /\ temits' = Append(temits, IF tresponse.success THEN "success" ELSE "error")
    /\ UNCHANGED <<tprofile, trequests, tfirst, tretry, tresponse>>
    /\ UNCHANGED notConnVars

NextConnect ==
    \/ \E ps \in BOOLEAN, ep \in Endpoints : TestConnectionBegin(ps, ep)
    \/ \E o \in AttemptOutcomes, n \in 0..MaxBuckets : FirstAttemptDone(o, n)
    \/ \E o \in AttemptOutcomes, n \in 0..MaxBuckets : RetryDone(o, n)
    \/ TestConnectionReturn

SpecConnect == InitConnect /\ [][NextConnect]_vars

InitInputs == InitCacheVars /\ InitIndexVars /\ InitOthers

\* what a command that got past its input checks does: the profile lookup,
\* the S3 request and, when S3 accepted it, the index hook
Mutation(op, bucket, key, request, hook, profile_found, s3_ok) ==
    /\ vcmd' = [op |-> op, bucket |-> bucket, key |-> key,
                result |-> IF ~profile_found THEN "profile_not_found"
                           ELSE IF s3_ok THEN "ok" ELSE "s3_error"]
    /\ vrequests' = IF profile_found THEN <<<<request, bucket, key>>>> ELSE << >>
    /\ vhook' = IF profile_found /\ s3_ok THEN hook ELSE "none"
    /\ UNCHANGED notInputVars

Rejected(op, bucket, key, result) ==
    /\ vcmd' = [op |-> op, bucket |-> bucket, key |-> key, result |-> result]
    /\ vrequests' = << >>
    /\ vhook' = "none"
    /\ UNCHANGED notInputVars

\* put_object: validate_bucket_name and validate_object_key come first
PutObjectOn(bucket, key, profile_found, s3_ok) ==
    IF ValidateBucketName(bucket) /\ ValidateObjectKey(key)
      THEN Mutation("put_object", bucket, key, "PutObject", "add_object",
                    profile_found, s3_ok)
      ELSE Rejected("put_object", bucket, key, "validation_error")

\* delete_object: the profile lookup is its first statement
DeleteObjectOn(bucket, key, profile_found, s3_ok) ==
    Mutation("delete_object", bucket, key, "DeleteObject", "remove_object",
             profile_found, s3_ok)

\* copy_object to dest_bucket / dest_key: the profile lookup is its first
\* statement
CopyObjectOn(dest_bucket, dest_key, profile_found, s3_ok) ==
    Mutation("copy_object", dest_bucket, dest_key, "CopyObject", "add_object",
             profile_found, s3_ok)

\* upload_file: std::fs::metadata(file_path), the profile lookup, then the
\* spawned task sends the object
UploadFileOn(bucket, key, file_found, profile_found, s3_ok) ==
    IF file_found
      THEN Mutation("upload_file", bucket, key, "PutObject", "add_object",
                    profile_found, s3_ok)
      ELSE Rejected("upload_file", bucket, key, "file_error")

NextInputs ==
    \/ \E b \in BucketInputs, k \in KeyInputs, pf \in BOOLEAN, ok \in BOOLEAN :
          PutObjectOn(b, k, pf, ok)
    \/ \E b \in BucketInputs, k \in KeyInputs, pf \in BOOLEAN, ok \in BOOLEAN :
          DeleteObjectOn(b, k, pf, ok)
    \/ \E b \in BucketInputs, k \in KeyInputs, pf \in BOOLEAN, ok \in BOOLEAN :
          CopyObjectOn(b, k, pf, ok)
    \/ \E b \in BucketInputs, k \in KeyInputs, ff \in BOOLEAN, pf \in BOOLEAN,
          ok \in BOOLEAN : UploadFileOn(b, k, ff, pf, ok)

SpecInputs == InitInputs /\ [][NextInputs]_vars

\* C33: every command that takes a bucket name and an object key and mutates
\* S3 (put_object, delete_object, copy_object, upload_file) fails with a
\* validation error, without issuing any S3 request or touching the index,
\* when the bucket name or the key violates the validation rules.
C33_InvalidInputRejected ==
    (/\ vcmd.op \in {"put_object", "delete_object", "copy_object", "upload_file"}
     /\ ~(ValidateBucketName(vcmd.bucket) /\ ValidateObjectKey(vcmd.key)))
        => /\ vcmd.result = "validation_error"
           /\ vrequests = << >>
           /\ vhook = "none"

\* put_object alone keeps C33's promise
C33_PutObjectRejects ==
    (/\ vcmd.op = "put_object"
     /\ ~(ValidateBucketName(vcmd.bucket) /\ ValidateObjectKey(vcmd.key)))
        => /\ vcmd.result = "validation_error"
           /\ vrequests = << >>
           /\ vhook = "none"

\* ------------------------------------------------------------------------
\* ProfileStore calls, one after another, on a store made by new()
\* ------------------------------------------------------------------------
InitPstore == InitCacheVars /\ InitIndexVars /\ InitOthers

CurrentStore == pstore[Len(pstore)]

\* upsert(profile): Err when to_encrypted fails (nothing done yet) or when
\* save() fails (both maps already updated); save() writes profiles to disk
UpsertCall(profile, nonces, encrypt_ok, save_ok) ==
    /\ Len(pcalls) < MaxStoreCalls
    /\ pstore' = Append(pstore,
                        ProfileStoreUpsert(CurrentStore, profile, nonces, encrypt_ok))
    /\ pcalls' = Append(pcalls,
                        [op |-> "upsert", id |-> profile.id, profile |-> profile,
                         result |-> IF ~encrypt_ok THEN "CryptoError"
                                    ELSE IF save_ok THEN "ok"
                                    ELSE "ProfileStorageError"])
    /\ pdisk' = IF encrypt_ok /\ save_ok
                  THEN ProfileStoreUpsert(CurrentStore, profile, nonces,
                                          encrypt_ok).profiles
                  ELSE pdisk
    /\ UNCHANGED notPstoreVars

\* delete(id): Err(ProfileNotFound) for an id not in profiles (nothing done),
\* Err when save() fails (both maps already updated)
DeleteCall(id, save_ok) ==
    /\ Len(pcalls) < MaxStoreCalls
    /\ pstore' = Append(pstore, ProfileStoreDelete(CurrentStore, id))
    /\ pcalls' = Append(pcalls,
                        [op |-> "delete", id |-> id, profile |-> "none",
                         result |-> IF id \notin DOMAIN CurrentStore.profiles
                                      THEN "ProfileNotFound"
                                    ELSE IF save_ok THEN "ok"
                                    ELSE "ProfileStorageError"])
    /\ pdisk' = IF id \in DOMAIN CurrentStore.profiles /\ save_ok
                  THEN ProfileStoreDelete(CurrentStore, id).profiles
                  ELSE pdisk
    /\ UNCHANGED notPstoreVars

NextPstore ==
    \/ \E p \in ProfileInputs, n \in Nonces \X Nonces, eo \in BOOLEAN,
          so \in BOOLEAN : UpsertCall(p, n, eo, so)
    \/ \E id \in Profiles, so \in BOOLEAN : DeleteCall(id, so)

SpecPstore == InitPstore /\ [][NextPstore]_vars

\* the profile most recently upserted for id among the first n calls and not
\* deleted since, as get returns it ({} when there is none)
RECURSIVE LastUpserted(_, _)
LastUpserted(n, id) ==
    IF n = 0 THEN {}
    ELSE IF pcalls[n].id = id /\ pcalls[n].result = "ok"
      THEN IF pcalls[n].op = "upsert" THEN {pcalls[n].profile} ELSE {}
      ELSE LastUpserted(n - 1, id)

\* C34: after any sequence of successful upsert and delete calls, get(id)
\* returns the most recently upserted profile for id with its credentials
\* unchanged, get returns ProfileNotFound for an id never upserted or deleted
\* since its last upsert, and the encrypted map and the decrypted cache hold
\* the same set of ids.
C34_GetReturnsLastUpsert ==
    \A n \in 0..Len(pcalls) :
        (\A i \in 1..n : pcalls[i].result = "ok") =>
            /\ \A id \in Profiles :
                  ProfileStoreGet(pstore[n + 1], id) = LastUpserted(n, id)
            /\ DOMAIN pstore[n + 1].profiles = DOMAIN pstore[n + 1].decrypted_cache

\* a profile was upserted twice with different credentials, both calls
\* succeeding: get returns the second one, and the other id is not found
C34_Witness ==
    /\ Len(pcalls) >= 2
    /\ \A i \in 1..Len(pcalls) : pcalls[i].result = "ok"
    /\ pcalls[1].op = "upsert" /\ pcalls[2].op = "upsert"
    /\ pcalls[1].id = pcalls[2].id
    /\ pcalls[1].profile.secret_key # pcalls[2].profile.secret_key
    /\ ProfileStoreGet(pstore[3], pcalls[2].id) = {pcalls[2].profile}
    /\ \E id \in Profiles : ProfileStoreGet(pstore[3], id) = {}

\* C40: if ProfileStore.upsert or ProfileStore.delete returns an error (for
\* example because saving to disk fails), the in-memory store (encrypted map
\* and decrypted cache) is unchanged, so get and list return the same results
\* as before the call.
C40_ErrorLeavesStoreUnchanged ==
    \A i \in 1..Len(pcalls) :
        pcalls[i].result # "ok" =>
            /\ pstore[i + 1] = pstore[i]
            /\ \A id \in Profiles :
                  ProfileStoreGet(pstore[i + 1], id) = ProfileStoreGet(pstore[i], id)
            /\ ProfileStoreList(pstore[i + 1]) = ProfileStoreList(pstore[i])

\* the errors raised before the maps are touched leave the store unchanged
C40_EarlyErrorsLeaveStoreUnchanged ==
    \A i \in 1..Len(pcalls) :
        pcalls[i].result \in {"CryptoError", "ProfileNotFound"} =>
            pstore[i + 1] = pstore[i]

\* ------------------------------------------------------------------------
\* Profile commands and the manager caches (commands.rs), one command after
\* another
\* ------------------------------------------------------------------------
InitProfiles == InitCacheVars /\ InitIndexVars /\ InitOthers

Command(op, profile_id, result) ==
    last_cmd' = [op |-> op, profile_id |-> profile_id, result |-> result]

\* save_profile: ProfileStore::upsert
SaveProfile(p) ==
    /\ profiles' = profiles \cup {p}
    /\ Command("save_profile", p, "ok")
    /\ UNCHANGED <<cacheVars, db_cache>>
    /\ UNCHANGED notProfileVars

\* delete_profile: ProfileStore::delete, Err(ProfileNotFound) for an unknown
\* id; the manager caches are not touched
DeleteProfile(p) ==
    /\ profiles' = profiles \ {p}
    /\ Command("delete_profile", p, IF p \in profiles THEN "ok" ELSE "err")
    /\ UNCHANGED <<cacheVars, db_cache>>
    /\ UNCHANGED notProfileVars

\* a command that reaches get_index_manager(profile_id): on a miss
\* IndexManager::new runs get_db_manager, and both caches get an entry
UseIndexManager(p, ok) ==
    /\ IF cache[p] # 0
         THEN /\ ok
              /\ UNCHANGED <<cache, inits, db_cache>>
         ELSE /\ inits < MaxInits
              /\ inits' = inits + 1
              /\ cache' = [cache EXCEPT ![p] = IF ok THEN inits + 1 ELSE 0]
              /\ db_cache' = [db_cache EXCEPT ![p] = @ \/ ok]
    /\ Command("get_index_manager", p, IF ok THEN "ok" ELSE "err")
    /\ UNCHANGED <<cpc, ckey, cgen, cval, removals, profiles>>
    /\ UNCHANGED notProfileVars

\* cleanup_profile_cache: close_index_manager and close_db_manager
CleanupProfileCache(p) ==
    /\ cache' = [cache EXCEPT ![p] = 0]
    /\ db_cache' = [db_cache EXCEPT ![p] = FALSE]
    /\ Command("cleanup_profile_cache", p, "ok")
    /\ UNCHANGED <<cpc, ckey, cgen, cval, inits, removals, profiles>>
    /\ UNCHANGED notProfileVars

NextProfiles ==
    \/ \E p \in Profiles : SaveProfile(p)
    \/ \E p \in Profiles : DeleteProfile(p)
    \/ \E p \in Profiles, ok \in BOOLEAN : UseIndexManager(p, ok)
    \/ \E p \in Profiles : CleanupProfileCache(p)

SpecProfiles == InitProfiles /\ [][NextProfiles]_vars

\* ------------------------------------------------------------------------
\* Commands and tasks running side by side on the AppState mutexes
\* ------------------------------------------------------------------------
InitLocks == InitCacheVars /\ InitIndexVars /\ InitOthers

Finished(p) == lpc[p] > Len(Programs[p])

\* the statement the command or task is at
Statement(p) == Programs[p][lpc[p]]

\* Mutex::lock: blocks the thread until the mutex is free
LockStep(p) ==
    /\ ~Finished(p)
    /\ Statement(p)[1] = "lock"
    /\ holder[Statement(p)[2]] = "free"
    /\ holder' = [holder EXCEPT ![Statement(p)[2]] = p]
    /\ lpc' = [lpc EXCEPT ![p] = @ + 1]
    /\ UNCHANGED notLockVars

\* the guard goes out of scope
UnlockStep(p) ==
    /\ ~Finished(p)
    /\ Statement(p)[1] = "unlock"
    /\ holder' = [holder EXCEPT ![Statement(p)[2]] = "free"]
    /\ lpc' = [lpc EXCEPT ![p] = @ + 1]
    /\ UNCHANGED notLockVars

\* the future suspended at an .await is polled again and completes
AwaitStep(p) ==
    /\ ~Finished(p)
    /\ Statement(p)[1] = "await"
    /\ lpc' = [lpc EXCEPT ![p] = @ + 1]
    /\ UNCHANGED holder
    /\ UNCHANGED notLockVars

\* the command is invoked again, the task spawned again
Restart(p) ==
    /\ Finished(p)
    /\ lpc' = [lpc EXCEPT ![p] = 1]
    /\ UNCHANGED holder
    /\ UNCHANGED notLockVars

NextLocks ==
    \/ \E p \in LockProcs : LockStep(p)
    \/ \E p \in LockProcs : UnlockStep(p)
    \/ \E p \in LockProcs : AwaitStep(p)
    \/ \E p \in LockProcs : Restart(p)

SpecLocks == InitLocks /\ [][NextLocks]_vars

Suspended(p) == ~Finished(p) /\ Statement(p)[1] = "await"

Blocked(p) ==
    /\ ~Finished(p)
    /\ Statement(p)[1] = "lock"
    /\ holder[Statement(p)[2]] # "free"

\* C29: no command or background task holds a mutex guard on profiles,
\* active_uploads, active_downloads or active_indexing at any await point,
\* so no interleaving of commands and tasks can block or deadlock on these
\* locks while suspended: whoever holds a guard is neither suspended nor
\* waiting for another of these locks.
C29_NoGuardAcrossAwait ==
    \A m \in Mutexes :
        holder[m] # "free" =>
            /\ ~Suspended(holder[m])
            /\ ~Blocked(holder[m])
            /\ ~Finished(holder[m])

\* cancel_upload holds active_uploads while the upload task, back from its
\* await, waits for the same mutex and start_initial_index is suspended
C29_Witness ==
    /\ holder["active_uploads"] = "cancel_upload"
    /\ Blocked("upload_task")
    /\ Suspended("start_initial_index")
    /\ Suspended("download_task")

\* C28: after delete_profile(p) succeeds, the index-manager cache and the
\* database-manager cache hold no entry for profile p.
C28_DeleteEvictsCaches ==
    (last_cmd.op = "delete_profile" /\ last_cmd.result = "ok")
    => /\ cache[last_cmd.profile_id] = 0
       /\ ~db_cache[last_cmd.profile_id]

\* ------------------------------------------------------------------------
\* Commands over the index (commands.rs), one call after another
\* ------------------------------------------------------------------------
InitIndex == InitCacheVars /\ InitIndexVars /\ InitOthers

SetIndex(result) ==
    /\ objects' = result.objects
    /\ prefix_status' = result.rows

\* put_object (also create/copy/upload): the S3 write, then add_object
PutObjectCmd(key) ==
    /\ s3' = s3 \cup {key}
    /\ SetIndex(AddObject(objects, prefix_status, key))
    /\ UNCHANGED bucket_info
    /\ UNCHANGED notIndexVars

\* delete_object: the S3 delete, then remove_object
DeleteObjectCmd(key) ==
    /\ s3' = s3 \ {key}
    /\ SetIndex(RemoveObject(objects, prefix_status, key))
    /\ UNCHANGED bucket_info
    /\ UNCHANGED notIndexVars

\* delete_folder: S3Adapter::delete_folder, then remove_folder
DeleteFolderCmd(prefix) ==
    /\ s3' = {k \in s3 : ~StartsWith(k, prefix)}
    /\ SetIndex(RemoveFolder(objects, prefix_status, prefix))
    /\ UNCHANGED bucket_info
    /\ UNCHANGED notIndexVars

\* list_objects: the listing, update_from_list_response, and with sync_index
\* on a first page that is not truncated, sync_prefix_objects
ListObjectsCmd(prefix, token, max_keys, delim, sync_index) ==
    LET response == ListObjectsV2(s3, prefix, token, max_keys, delim)
        updated == UpdateFromListResponse(objects, prefix_status, prefix, response)
        synced == IF sync_index /\ token = EmptyStr /\ ~response.is_truncated
                    THEN SyncPrefixObjects(updated.objects, updated.rows, prefix,
                                           SeqToSet(response.objects))
                    ELSE updated
    IN  /\ SetIndex(synced)
        /\ UNCHANGED <<s3, bucket_info>>
        /\ UNCHANGED notIndexVars

\* clear_bucket_index: the three DELETEs of one transaction
ClearBucketIndexCmd ==
    /\ objects' = {}
    /\ prefix_status' = [p \in {} |-> NewRow(FALSE, EmptyStr)]
    /\ bucket_info' = [present |-> FALSE, initial_index_completed |-> FALSE,
                       initial_index_requests |-> 0]
    /\ UNCHANGED s3
    /\ UNCHANGED notIndexVars

\* start_initial_index with nothing running beside it: initial_index_bucket
\* from its first statement to its last
InitialIndexCmd(max_requests, batch_size, cancel_after) ==
    LET loop == RunLoop(NewRun, objects, s3, max_requests, batch_size,
                        cancel_after)
        root_response == ListObjectsV2(s3, EmptyStr, EmptyStr, batch_size, TRUE)
    IN  /\ objects' = loop.objects
        /\ prefix_status' = RunFinishRows(prefix_status, loop.objects, loop.run,
                                          root_response)
        /\ bucket_info' = RunFinishInfo(loop.run)
        /\ UNCHANGED s3
        /\ UNCHANGED notIndexVars

\* another client writes or deletes an object of the bucket
ExternalPut(key) ==
    /\ key \notin s3
    /\ s3' = s3 \cup {key}
    /\ UNCHANGED <<objects, prefix_status, bucket_info>>
    /\ UNCHANGED notIndexVars

ExternalDelete(key) ==
    /\ key \in s3
    /\ s3' = s3 \ {key}
    /\ UNCHANGED <<objects, prefix_status, bucket_info>>
    /\ UNCHANGED notIndexVars

\* continuation tokens a caller of list_objects can hold for a prefix
TokensFor(prefix, delim) ==
    {ListEntry(k, prefix, delim) : k \in {j \in s3 : StartsWith(j, prefix)}}

\* (max_requests, batch_size, cancel_after) of the runs tried: unlimited and
\* complete, cancelled before the first or the second page, capped
RunConfigs ==
    {<<0, BigPage, -1>>, <<0, 1, 0>>, <<0, 1, 1>>}
        \cup {<<m, 1, -1>> : m \in 1..MaxRequestsBound}

\* (max_keys, sync_index) of the first pages tried
FirstPageConfigs == {<<BigPage, FALSE>>, <<BigPage, TRUE>>, <<1, TRUE>>}

NextIndex ==
    \/ \E k \in Keys : PutObjectCmd(k)
    \/ \E k \in Keys : DeleteObjectCmd(k)
    \/ \E p \in FolderPrefixes : DeleteFolderCmd(p)
    \/ \E p \in InputPrefixes, delim \in BOOLEAN, c \in FirstPageConfigs :
          ListObjectsCmd(p, EmptyStr, c[1], delim, c[2])
    \/ \E p \in InputPrefixes, delim \in BOOLEAN :
          \E t \in TokensFor(p, delim) \ {EmptyStr} :
              ListObjectsCmd(p, t, 1, delim, FALSE)
    \/ ClearBucketIndexCmd
    \/ \E c \in RunConfigs : InitialIndexCmd(c[1], c[2], c[3])
    \/ \E k \in Keys : ExternalPut(k)
    \/ \E k \in Keys : ExternalDelete(k)

SpecIndex == InitIndex /\ [][NextIndex]_vars

\* ------------------------------------------------------------------------
\* DatabaseManager / IndexManager calls on one database, one after another
\* ------------------------------------------------------------------------
MaxCalls == 2             \* calls followed on one database

\* "A/b/y": a key that differs from "a/b/..." in case only
KeyUpperABY == <<65, 47, 98, 47, 121>>
StoreKeys == {KeyX, KeyABX, KeyUpperABY}

TableOf(S) == [r \in S |-> 1]

PresentInfo == [present |-> TRUE, initial_index_completed |-> TRUE,
                initial_index_requests |-> 1]

RootComplete == [p \in {EmptyStr} |-> NewRow(TRUE, EmptyStr)]

\* <<prefix_status, bucket_info>> of the first bucket at the start: never
\* listed; the root listed; indexed completely with "", "a/" and "a/b/"
\* complete; "a/b/" listed under marked ancestors
InitialIndexStates ==
    {<<NoRows, AbsentInfo>>, <<RootComplete, AbsentInfo>>,
     <<[p \in InputPrefixes |-> NewRow(TRUE, EmptyStr)], PresentInfo>>,
     <<[p \in InputPrefixes |-> NewRow(p = PrefixAB, EmptyStr)], AbsentInfo>>}

\* the databases the calls start from: any of the three keys indexed in the
\* first bucket, "x" indexed in the second
InitialStores ==
    {[objects |-> TableOf({ObjRow(BucketOne, k, NullVersion, 1) : k \in S}
                          \cup {ObjRow(BucketTwo, KeyX, NullVersion, 1)}),
      prefix_status |-> [b \in Buckets |->
                            IF b = BucketOne THEN is[1] ELSE RootComplete],
      bucket_info |-> [b \in Buckets |->
                          IF b = BucketOne THEN is[2] ELSE PresentInfo]] :
        S \in SUBSET StoreKeys, is \in InitialIndexStates}

InitStore ==
    /\ InitCacheVars /\ InitIndexVars /\ InitIndexingVars /\ InitUploadVars
    /\ InitDownloadVars /\ InitHookVars /\ InitProfileVars /\ InitLockVars /\ InitConnVars /\ InitInputVars /\ InitPstoreVars
    /\ store \in {<<st>> : st \in InitialStores}
    /\ calls = << >>

Current == store[Len(store)]

\* the call is made: its result becomes the current database
Called(op, arg, ret, next) ==
    /\ Len(calls) < MaxCalls
    /\ store' = Append(store, next)
    /\ calls' = Append(calls, [op |-> op, arg |-> arg, ret |-> ret])
    /\ UNCHANGED notStoreVars

\* the objects given to add_object and the keys given to remove_object
AddInputs ==
    {<<BucketOne, KeyX, 1>>, <<BucketOne, KeyX, 2>>, <<BucketOne, KeyABX, 1>>,
     <<BucketOne, KeyUpperABY, 1>>}

RemoveInputs == {<<BucketOne, k>> : k \in StoreKeys} \cup {<<BucketTwo, KeyX>>}

\* (prefix, current_keys) given to sync_prefix_objects
SyncInputs ==
    {<<EmptyStr, {}>>, <<EmptyStr, {KeyX}>>, <<PrefixAB, {}>>,
     <<PrefixAB, {KeyABX}>>}

\* the row lists given to upsert_objects_batch
BatchInputs ==
    {<<ObjRow(BucketOne, KeyX, NullVersion, 1)>>,
     <<ObjRow(BucketOne, KeyX, NullVersion, 2),
       ObjRow(BucketOne, KeyABX, NullVersion, 1)>>,
     <<ObjRow(BucketOne, KeyX, VersionOne, 1),
       ObjRow(BucketOne, KeyX, NullVersion, 1),
       ObjRow(BucketOne, KeyX, NullVersion, 2)>>}

\* (prefix, response) given to update_from_list_response
UpdateInputs ==
    {<<EmptyStr, [objects |-> <<<<KeyX, 2>>>>, common_prefixes |-> <<PrefixA>>,
                  continuation_token |-> IF t THEN KeyX ELSE EmptyStr,
                  is_truncated |-> t]>> : t \in BOOLEAN}
    \cup
    {<<PrefixAB, [objects |-> <<<<KeyABX, 1>>>>, common_prefixes |-> << >>,
                  continuation_token |-> IF t THEN KeyABX ELSE EmptyStr,
                  is_truncated |-> t]>> : t \in BOOLEAN}

AddObjectCall(in) ==
    Called("add_object", in, "ok",
           StoreAddObject(Current, in[1], in[2], in[3]))

RemoveObjectCall(in) ==
    Called("remove_object", in, "ok", StoreRemoveObject(Current, in[1], in[2]))

RemoveFolderCall(prefix) ==
    LET next == StoreRemoveFolder(Current, BucketOne, prefix)
    IN  Called("remove_folder", <<BucketOne, prefix>>,
               SumCopies(Current.objects, DOMAIN Current.objects \ DOMAIN next.objects),
               next)

\* DatabaseManager::sync_prefix_objects
DbSyncCall(in) ==
    LET kept == SyncPrefixObjectsIn(Current.objects, BucketOne, in[1], in[2])
    IN  Called("db_sync_prefix_objects", <<BucketOne, in[1], in[2]>>,
               SumCopies(Current.objects, DOMAIN Current.objects \ DOMAIN kept),
               [Current EXCEPT !.objects = kept])

UpsertBatchCall(rows) ==
    Called("upsert_objects_batch", rows, Len(rows),
           [Current EXCEPT !.objects = UpsertObjectsBatch(@, rows)])

\* (bucket, failing statement) of the clear_bucket_index calls
ClearInputs ==
    {<<BucketOne, f>> : f \in ClearFailures} \cup {<<BucketTwo, "none">>}

ClearCall(in) ==
    Called("clear_bucket_index", in, IF in[2] = "none" THEN "ok" ELSE "err",
           ClearBucketIndex(Current, in[1], in[2]))

UpdateCall(in) ==
    Called("update_from_list_response", <<BucketOne, in[1], in[2]>>,
           Len(in[2].objects),
           StoreUpdateFromListResponse(Current, BucketOne, in[1], in[2]))

NextStore ==
    \/ \E in \in AddInputs : AddObjectCall(in)
    \/ \E in \in RemoveInputs : RemoveObjectCall(in)
    \/ \E p \in FolderPrefixes : RemoveFolderCall(p)
    \/ \E in \in SyncInputs : DbSyncCall(in)
    \/ \E rows \in BatchInputs : UpsertBatchCall(rows)
    \/ \E in \in ClearInputs : ClearCall(in)
    \/ \E in \in UpdateInputs : UpdateCall(in)

SpecStore == InitStore /\ [][NextStore]_vars

\* ------------------------------------------------------------------------
\* Commands whose index hook fails after the S3 mutation succeeded
\* ------------------------------------------------------------------------
\* where the hook fails: get_index_manager, the statement on the objects
\* table, or the UPDATE of prefix_status
HookStages == {"manager", "objects", "mark"}

\* put_object: the S3 write succeeds, `let _ = index_mgr.add_object(..)`
\* fails, the command returns result.map_err(..) = Ok(())
PutObjectHookFails(key, stage) ==
    /\ s3' = s3 \cup {key}
    /\ objects' = IF stage = "mark" THEN objects \cup {key} ELSE objects
    /\ cmd_result' = "Ok"
    /\ UNCHANGED <<prefix_status, bucket_info, query_prefix, query_answer>>
    /\ UNCHANGED notHookVars

\* delete_object: the S3 delete succeeds, `let _ = index_mgr.remove_object(..)`
\* fails, the command returns Ok(())
DeleteObjectHookFails(key, stage) ==
    /\ s3' = s3 \ {key}
    /\ objects' = IF stage = "mark" THEN objects \ {key} ELSE objects
    /\ cmd_result' = "Ok"
    /\ UNCHANGED <<prefix_status, bucket_info, query_prefix, query_answer>>
    /\ UNCHANGED notHookVars

NextHooks ==
    \/ NextIndex
    \/ \E k \in Keys, stage \in HookStages : PutObjectHookFails(k, stage)
    \/ \E k \in Keys, stage \in HookStages : DeleteObjectHookFails(k, stage)

SpecHooks == InitIndex /\ [][NextHooks]_vars

\* C12: when the index hook fails after the S3 mutation succeeded, the
\* command reports success and is_prefix_complete of the affected prefix
\* returns false afterwards.
C12_FailedHookMarksIncomplete ==
    [][\A k \in Keys, stage \in HookStages :
          (PutObjectHookFails(k, stage) \/ DeleteObjectHookFails(k, stage))
          => /\ cmd_result' = "Ok"
             /\ ~IsPrefixComplete(bucket_info', prefix_status', objects',
                                  ExtractParentPrefix(k))
    ]_vars

\* ------------------------------------------------------------------------
\* is_prefix_complete asked of the index that initial_index_bucket runs leave
\* ------------------------------------------------------------------------
\* "archive/x", "data/y", "data/z"
KeyArchiveX == <<97, 114, 99, 104, 105, 118, 101, 47, 120>>
KeyDataY == <<100, 97, 116, 97, 47, 121>>
KeyDataZ == <<100, 97, 116, 97, 47, 122>>
WatermarkKeys == {KeyArchiveX, KeyDataY, KeyDataZ}

\* "archive/", "data/"
PrefixArchive == <<97, 114, 99, 104, 105, 118, 101, 47>>
PrefixData == <<100, 97, 116, 97, 47>>
QueryPrefixes == {EmptyStr, PrefixArchive, PrefixData}

\* a bucket holding some of the keys, not indexed yet
InitWatermark ==
    /\ InitCacheVars
    /\ s3 \in SUBSET WatermarkKeys
    /\ objects = {}
    /\ prefix_status = [p \in {} |-> NewRow(FALSE, EmptyStr)]
    /\ bucket_info = [present |-> FALSE, initial_index_completed |-> FALSE,
                      initial_index_requests |-> 0]
    /\ InitOthers

\* is_prefix_complete(bucket, prefix)
IsPrefixCompleteQuery(prefix) ==
    /\ query_prefix' = prefix
    /\ query_answer' =
          IF IsPrefixComplete(bucket_info, prefix_status, objects, prefix)
            THEN "true" ELSE "false"
    /\ UNCHANGED cmd_result
    /\ UNCHANGED indexVars
    /\ UNCHANGED notHookVars

NextWatermark ==
    \/ \E c \in RunConfigs : InitialIndexCmd(c[1], c[2], c[3])
    \/ ClearBucketIndexCmd
    \/ \E p \in QueryPrefixes : IsPrefixCompleteQuery(p)

SpecWatermark == InitWatermark /\ [][NextWatermark]_vars

\* the index of scenario S3: initial_index_completed false, "archive/x" and
\* "data/y" indexed, root last_indexed_key = "data/y"
WatermarkScenario ==
    /\ ~bucket_info.initial_index_completed
    /\ objects = {KeyArchiveX, KeyDataY}
    /\ HasRow(prefix_status, EmptyStr)
    /\ prefix_status[EmptyStr].last_indexed_key = KeyDataY

\* C14: in scenario S3 is_prefix_complete("archive/") returns true and
\* is_prefix_complete("data/") returns false; whenever the bucket is not
\* completely indexed, a prefix that sorts before the root watermark without
\* containing it is reported complete, and a prefix that contains the
\* watermark key is reported complete only on the strength of its own row.
C14_WatermarkShortcut ==
    [][\A p \in QueryPrefixes :
          IsPrefixCompleteQuery(p) =>
            /\ (WatermarkScenario /\ p = PrefixArchive) => query_answer' = "true"
            /\ (WatermarkScenario /\ p = PrefixData) => query_answer' = "false"
            /\ (/\ ~bucket_info.initial_index_completed
                /\ p # EmptyStr
                /\ HasRow(prefix_status, EmptyStr))
               => LET w == prefix_status[EmptyStr].last_indexed_key
                  IN  /\ (StrLess(p, w) /\ ~StartsWith(w, p))
                         => query_answer' = "true"
                      /\ (StartsWith(w, p) /\ query_answer' = "true")
                         => (HasRow(prefix_status, p)
                             /\ prefix_status[p].is_complete)
    ]_vars

\* is_prefix_complete("archive/") was answered with true in scenario S3
C14_Witness ==
    /\ WatermarkScenario
    /\ query_prefix = PrefixArchive
    /\ query_answer = "true"

\* ------------------------------------------------------------------------
\* is_prefix_complete on sibling prefixes that share a leading string: a
\* bucket of "a-b/x", "a/y" and "b" (S3 lists them in this order), indexed by
\* runs and by navigation listings
\* ------------------------------------------------------------------------
KeyADashBX == <<97, 45, 98, 47, 120>>
KeyAY == <<97, 47, 121>>
KeyB == <<98>>
SiblingKeys == {KeyADashBX, KeyAY, KeyB}

\* "a-b/"
PrefixADashB == <<97, 45, 98, 47>>
SiblingPrefixes == {EmptyStr, PrefixA, PrefixADashB}

InitSiblings ==
    /\ InitCacheVars
    /\ s3 \in SUBSET SiblingKeys
    /\ objects = {}
    /\ prefix_status = [p \in {} |-> NewRow(FALSE, EmptyStr)]
    /\ bucket_info = [present |-> FALSE, initial_index_completed |-> FALSE,
                      initial_index_requests |-> 0]
    /\ InitOthers

NextSiblings ==
    \/ \E c \in RunConfigs : InitialIndexCmd(c[1], c[2], c[3])
    \/ \E p \in SiblingPrefixes, c \in FirstPageConfigs :
          ListObjectsCmd(p, EmptyStr, c[1], TRUE, c[2])
    \/ ClearBucketIndexCmd
    \/ \E p \in SiblingPrefixes : IsPrefixCompleteQuery(p)

SpecSiblings == InitSiblings /\ [][NextSiblings]_vars

\* is_prefix_complete(prefix) is about to return true through the watermark
\* shortcut
ShortcutAnswers(prefix) ==
    /\ ~(bucket_info.present /\ bucket_info.initial_index_completed)
    /\ WatermarkPast(prefix_status, prefix)

\* C35: whenever is_prefix_complete(bucket, prefix) returns true through the
\* watermark shortcut (initial_index_completed false, root last_indexed_key
\* present), every key of the bucket that starts with prefix has already been
\* listed into the index; this holds also for sibling prefixes that share a
\* leading string (such as "a/" and "a-b/") and whichever operation wrote the
\* root last_indexed_key.
C35_ShortcutMeansListed ==
    [][\A p \in SiblingPrefixes :
          (IsPrefixCompleteQuery(p) /\ ShortcutAnswers(p))
            => (/\ query_answer' = "true"
                /\ \A k \in s3 : StartsWith(k, p) => k \in objects)]_vars

\* the same for a prefix whose trimmed form is no leading string of the
\* watermark's first segment
C35_ShortcutApart ==
    [][\A p \in SiblingPrefixes :
          (/\ IsPrefixCompleteQuery(p) /\ ShortcutAnswers(p)
           /\ ~StartsWith(FirstSegment(prefix_status[EmptyStr].last_indexed_key),
                          TrimEndSlash(p)))
            => \A k \in s3 : StartsWith(k, p) => k \in objects]_vars

\* ------------------------------------------------------------------------
\* start_initial_index / cancel_indexing (commands.rs), statement by statement
\* across concurrent invocations for one (profile, bucket)
\* ------------------------------------------------------------------------
\* app.emit_all("index:progress", ..): the events are kept as the number
\* emitted of each status
\* the statuses that end a run's events
TerminalStatuses == {"Completed", "Partial", "Cancelled", "Failed"}

\* where a run's events stand after one more event: "started" after Starting
\* and any number of Indexing, "terminal" after one terminal status,
\* "disorder" after anything else
EventStep(seen, status) ==
    IF seen = "none" /\ status = "Starting" THEN "started"
    ELSE IF seen = "started" /\ status = "Indexing" THEN "started"
    ELSE IF seen = "started" /\ status \in TerminalStatuses THEN "terminal"
    ELSE "disorder"

\* app.emit_all("index:progress", ..) for the run of call c
EmitIndex(c, status) ==
    /\ index_events' = [index_events EXCEPT ![status] = @ + 1]
    /\ run_events' = [run_events EXCEPT ![c] = EventStep(@, status)]

\* positions inside initial_index_bucket
RunningPcs == {"loop", "listing", "finish"}

\* (max_requests, batch_size) of the calls tried: an unlimited run that gets
\* the bucket in one page, a run capped at one request of one key
CallConfigs == {<<0, BigPage>>, <<1, 1>>}

\* a bucket that holds both keys, not indexed yet
InitIndexing ==
    /\ InitCacheVars
    /\ s3 = Keys
    /\ objects = {}
    /\ prefix_status = [p \in {} |-> NewRow(FALSE, EmptyStr)]
    /\ bucket_info = [present |-> FALSE, initial_index_completed |-> FALSE,
                      initial_index_requests |-> 0]
    /\ InitOthers

StartUnchecked(c, cfg, profile_found) ==
    /\ ipc[c] = "idle"
    /\ iresult[c] \in {"none", "rejected"}
    /\ profile_found
    /\ EmitIndex(c, "Starting")
    /\ ipc' = [ipc EXCEPT ![c] = "adapter"]
    /\ icfg' = [icfg EXCEPT ![c] = cfg]
    /\ icancel' = [icancel EXCEPT ![c] = FALSE]
    /\ iresult' = [iresult EXCEPT ![c] = "running"]
    /\ UNCHANGED <<active_indexing, irun, cancel_indexing_result>>
    /\ UNCHANGED indexVars
    /\ UNCHANGED notIndexingVars

\* start_initial_index up to the first await: the check of active_indexing,
\* the profile lookup, the cancel channel, the Starting event
StartCheck(c, cfg, profile_found) ==
    /\ ipc[c] = "idle"
    /\ iresult[c] \in {"none", "rejected"}
    /\ IF active_indexing # 0
         THEN /\ iresult' = [iresult EXCEPT ![c] = "rejected"]
              /\ UNCHANGED <<active_indexing, ipc, icfg, irun, icancel,
                             index_events, run_events, cancel_indexing_result>>
         ELSE IF ~profile_found
           THEN /\ iresult' = [iresult EXCEPT ![c] = "err"]
                /\ UNCHANGED <<active_indexing, ipc, icfg, irun, icancel,
                               index_events, run_events, cancel_indexing_result>>
           ELSE /\ EmitIndex(c, "Starting")
                /\ ipc' = [ipc EXCEPT ![c] = "adapter"]
                /\ icfg' = [icfg EXCEPT ![c] = cfg]
                /\ icancel' = [icancel EXCEPT ![c] = FALSE]
                /\ iresult' = [iresult EXCEPT ![c] = "running"]
                /\ UNCHANGED <<active_indexing, irun, cancel_indexing_result>>
    /\ UNCHANGED indexVars
    /\ UNCHANGED notIndexingVars

\* S3Adapter::from_profile(..).await returns: on success the IndexTask is
\* inserted, the Indexing event emitted and initial_index_bucket entered
AdapterDone(c, ok) ==
    /\ ipc[c] = "adapter"
    /\ IF ok
         THEN /\ active_indexing' = c
              /\ EmitIndex(c, "Indexing")
              /\ irun' = [irun EXCEPT ![c] = NewRun]
              /\ ipc' = [ipc EXCEPT ![c] = "loop"]
              /\ UNCHANGED <<iresult, icfg>>
         ELSE /\ ipc' = [ipc EXCEPT ![c] = "returned"]
              /\ iresult' = [iresult EXCEPT ![c] = "err"]
              /\ icfg' = [icfg EXCEPT ![c] = <<0, 1>>]
              /\ UNCHANGED <<active_indexing, index_events, run_events, irun>>
    /\ UNCHANGED <<icancel, cancel_indexing_result>>
    /\ UNCHANGED indexVars
    /\ UNCHANGED notIndexingVars

\* top of the loop of initial_index_bucket: try_recv, the request cap, the
\* list_objects request
LoopTop(c) ==
    LET decision == LoopDecision(irun[c], icfg[c][1], icancel[c])
    IN  /\ ipc[c] = "loop"
        /\ IF decision = "cancel"
             THEN /\ irun' = [irun EXCEPT ![c].was_cancelled = TRUE]
                  /\ icancel' = [icancel EXCEPT ![c] = FALSE]
                  /\ ipc' = [ipc EXCEPT ![c] = "finish"]
             ELSE /\ ipc' = [ipc EXCEPT ![c] =
                                IF decision = "cap" THEN "finish" ELSE "listing"]
                  /\ UNCHANGED <<irun, icancel>>
        /\ UNCHANGED <<active_indexing, icfg, iresult, index_events, run_events,
                       cancel_indexing_result>>
        /\ UNCHANGED indexVars
        /\ UNCHANGED notIndexingVars

FirstPageOf(c) == ListObjectsV2(s3, EmptyStr, EmptyStr, icfg[c][2], FALSE)

\* the page that the list_objects request of call c returns
PageOf(c) ==
    ListObjectsV2(s3, EmptyStr, irun[c].continuation_token, icfg[c][2], FALSE)

\* the page arrives: upsert_objects_batch, on_progress, the end of the loop
\* body; an S3 error leaves initial_index_bucket with Err
PageDone(c, ok) ==
    LET response == PageOf(c)
    IN  /\ ipc[c] = "listing"
        /\ IF ok
             THEN /\ objects' = objects \cup SeqToSet(response.objects)
                  /\ irun' = [irun EXCEPT ![c] = RunAfterPage(irun[c], response)]
                  /\ EmitIndex(c, "Indexing")
                  /\ ipc' = [ipc EXCEPT ![c] =
                                IF ContinuesAfterPage(response)
                                  THEN "loop" ELSE "finish"]
                  /\ UNCHANGED iresult
             ELSE /\ ipc' = [ipc EXCEPT ![c] = "unregister"]
                  /\ iresult' = [iresult EXCEPT ![c] = "err"]
                  /\ UNCHANGED <<objects, irun, index_events, run_events>>
        /\ UNCHANGED <<active_indexing, icfg, icancel, cancel_indexing_result>>
        /\ UNCHANGED <<s3, prefix_status, bucket_info>>
        /\ UNCHANGED notIndexingVars

\* after the loop: the prefix_status rows, the root row, bucket_info; an
\* incomplete run first lists the root with the delimiter, and an S3 error of
\* that request leaves initial_index_bucket with Err before anything is written
RunFinish(c, ok) ==
    LET root_response == ListObjectsV2(s3, EmptyStr, EmptyStr, icfg[c][2], TRUE)
    IN  /\ ipc[c] = "finish"
        /\ ok \/ ~irun[c].is_complete
        /\ IF ok
             THEN /\ prefix_status' = RunFinishRows(prefix_status, objects,
                                                    irun[c], root_response)
                  /\ bucket_info' = RunFinishInfo(irun[c])
                  /\ UNCHANGED iresult
             ELSE /\ iresult' = [iresult EXCEPT ![c] = "err"]
                  /\ UNCHANGED <<prefix_status, bucket_info>>
        /\ ipc' = [ipc EXCEPT ![c] = "unregister"]
        /\ UNCHANGED <<active_indexing, icfg, irun, icancel, index_events,
                       run_events,
                       cancel_indexing_result>>
        /\ UNCHANGED <<s3, objects>>
        /\ UNCHANGED notIndexingVars

\* indexing.remove(&index_key) after initial_index_bucket returned
Unregister(c) ==
    /\ ipc[c] = "unregister"
    /\ active_indexing' = 0
    /\ ipc' = [ipc EXCEPT ![c] = "final"]
    /\ UNCHANGED <<icfg, irun, icancel, iresult, index_events, run_events,
                   cancel_indexing_result>>
    /\ UNCHANGED indexVars
    /\ UNCHANGED notIndexingVars

\* the status of the final event
FinalStatus(run, failed) ==
    IF failed THEN "Failed"
    ELSE IF run.was_cancelled THEN "Cancelled"
    ELSE IF run.is_complete THEN "Completed"
    ELSE "Partial"

\* the final index:progress event and the return, which ends the locals
EmitFinal(c) ==
    /\ ipc[c] = "final"
    /\ EmitIndex(c, FinalStatus(irun[c], iresult[c] = "err"))
    /\ iresult' = [iresult EXCEPT ![c] =
                      FinalStatus(irun[c], iresult[c] = "err")]
    /\ ipc' = [ipc EXCEPT ![c] = "returned"]
    /\ icfg' = [icfg EXCEPT ![c] = <<0, 1>>]
    /\ irun' = [irun EXCEPT ![c] = NewRun]
    /\ icancel' = [icancel EXCEPT ![c] = FALSE]
    /\ UNCHANGED <<active_indexing, cancel_indexing_result>>
    /\ UNCHANGED indexVars
    /\ UNCHANGED notIndexingVars

\* cancel_indexing
CancelIndexing ==
    /\ IF active_indexing # 0
         THEN /\ active_indexing' = 0
              /\ icancel' = [icancel EXCEPT ![active_indexing] =
                                ipc[active_indexing] \in RunningPcs]
              /\ EmitIndex(active_indexing, "Cancelled")
              /\ cancel_indexing_result' = "ok"
         ELSE /\ cancel_indexing_result' = "err"
              /\ UNCHANGED <<active_indexing, icancel, index_events,
                             run_events>>
    /\ UNCHANGED <<ipc, icfg, irun, iresult>>
    /\ UNCHANGED indexVars
    /\ UNCHANGED notIndexingVars

NextIndexing ==
    \/ \E c \in Calls, cfg \in CallConfigs, found \in BOOLEAN :
          StartCheck(c, cfg, found)
    \/ \E c \in Calls, ok \in BOOLEAN : AdapterDone(c, ok)
    \/ \E c \in Calls : LoopTop(c)
    \/ \E c \in Calls, ok \in BOOLEAN : PageDone(c, ok)
    \/ \E c \in Calls, ok \in BOOLEAN : RunFinish(c, ok)
    \/ \E c \in Calls : Unregister(c)
    \/ \E c \in Calls : EmitFinal(c)
    \/ CancelIndexing

SpecIndexing == InitIndexing /\ [][NextIndexing]_vars

\* one call of start_initial_index followed through its pages, with
\* cancel_indexing and other writers of the bucket beside it
SingleCallConfigs ==
    {<<0, 1>>, <<0, BigPage>>} \cup {<<m, 1>> : m \in 1..MaxRequestsBound}

RunKeys == Keys \cup {KeyDataY}

InitRun ==
    /\ InitCacheVars
    /\ s3 \in SUBSET RunKeys
    /\ objects = {}
    /\ prefix_status = [p \in {} |-> NewRow(FALSE, EmptyStr)]
    /\ bucket_info = [present |-> FALSE, initial_index_completed |-> FALSE,
                      initial_index_requests |-> 0]
    /\ InitOthers

NextRun ==
    \/ \E cfg \in SingleCallConfigs, found \in BOOLEAN : StartCheck(1, cfg, found)
    \/ \E ok \in BOOLEAN : AdapterDone(1, ok)
    \/ LoopTop(1)
    \/ \E ok \in BOOLEAN : PageDone(1, ok)
    \/ \E ok \in BOOLEAN : RunFinish(1, ok)
    \/ Unregister(1)
    \/ EmitFinal(1)
    \/ CancelIndexing
    \/ \E k \in RunKeys : ExternalPut(k)
    \/ \E k \in RunKeys : ExternalDelete(k)

SpecRun == InitRun /\ [][NextRun]_vars

\* the steps of initial_index_bucket in call 1: S3 answers every request,
\* with a page or an error, and the runtime polls the future again
RunStep ==
    \/ LoopTop(1)
    \/ \E ok \in BOOLEAN : PageDone(1, ok)
    \/ \E ok \in BOOLEAN : RunFinish(1, ok)

SpecRunFair == SpecRun /\ WF_vars(RunStep)

\* C15: a run that observed the cancel signal returns Ok with is_complete =
\* false and the error "Cancelled by user", keeps the objects it upserted,
\* writes initial_index_completed = false, and its final event is Cancelled.
C15_CancelledRunResult ==
    [][\A c \in Calls :
          /\ \A ok \in BOOLEAN :
                (RunFinish(c, ok) /\ irun[c].was_cancelled)
                => /\ iresult'[c] # "err"
                   /\ ~irun[c].is_complete
                   /\ bucket_info'.present
                   /\ ~bucket_info'.initial_index_completed
                   /\ objects' = objects
          /\ (EmitFinal(c) /\ irun[c].was_cancelled)
             => iresult'[c] = "Cancelled"
    ]_vars

C16_WitnessCap ==
    \E c \in Calls :
        /\ ipc[c] = "unregister"
        /\ iresult[c] # "err"
        /\ ~irun[c].is_complete /\ ~irun[c].was_cancelled
        /\ bucket_info.present /\ ~bucket_info.initial_index_completed

\* C17: the index:progress events of a run that emitted Starting are
\* Starting, then Indexing any number of times, then exactly one of
\* Completed, Partial, Cancelled, Failed, and nothing after it: no event
\* falls out of that order, and a call that has returned after Starting has
\* emitted its terminal event.
C17_EventOrder ==
    \A c \in Calls :
        /\ run_events[c] # "disorder"
        /\ (ipc[c] = "returned" /\ run_events[c] # "none")
           => run_events[c] = "terminal"

\* C18: within one run the watermark (the last key of the pages stored so
\* far) never moves backwards in lexicographic order, whatever other writers
\* do to the bucket between the pages.
C18_WatermarkMonotonic ==
    [][\A c \in Calls :
          PageDone(c, TRUE)
          => /\ ~StrLess(irun'[c].last_key, irun[c].last_key)
             /\ \A k \in SeqToSet(PageOf(c).objects) :
                    ~StrLess(irun'[c].last_key, k)
    ]_vars

\* a run stored a second page and its watermark moved from "a/b/x" on
C18_Witness ==
    \E c \in Calls :
        /\ ipc[c] \in RunningPcs
        /\ irun[c].requests_made >= 2
        /\ KeyABX \in objects
        /\ StrLess(KeyABX, irun[c].last_key)

\* C2: at most one initial_index_bucket run executes at a time for the
\* (profile, bucket) pair, and an entry of active_indexing belongs to the run
\* that is executing.
C2_SingleRun ==
    /\ Cardinality({c \in Calls : ipc[c] \in RunningPcs}) <= 1
    /\ active_indexing # 0 => ipc[active_indexing] \in RunningPcs

\* C3: a start_initial_index call made while active_indexing holds an entry
\* for the pair returns the rejection and leaves the registry, the index and
\* the event stream as they were.
C3_RejectedStartChangesNothing ==
    [][\A c \in Calls :
          (/\ ipc[c] = "idle"
           /\ active_indexing # 0
           /\ <<ipc[c], iresult[c]>>' # <<ipc[c], iresult[c]>>)
          => /\ ipc'[c] = "idle"
             /\ iresult'[c] = "rejected"
             /\ UNCHANGED <<active_indexing, objects, prefix_status,
                            bucket_info, index_events, run_events>>
    ]_vars

\* a call was rejected while another call's entry is in the registry
C3_Witness ==
    \E c \in Calls :
        /\ iresult[c] = "rejected"
        /\ ipc[c] = "idle"
        /\ active_indexing \notin {0, c}
        /\ ipc[active_indexing] \in RunningPcs

\* ------------------------------------------------------------------------
\* upload_file / perform_upload / cancel_upload (commands.rs)
\* The spawned task advances from one await to the next; a task on which
\* JoinHandle::abort was called is dropped at the await it is suspended on.
\* Sizes are in MB.
\* ------------------------------------------------------------------------
PART_SIZE == 10
DefaultThreshold == 50

DivCeil(a, b) == (a + b - 1) \div b

\* <<key, file size, multipart threshold>> of the uploads tried
UploadInputs ==
    {<<KeyX, 5, DefaultThreshold>>, <<KeyABX, 5, DefaultThreshold>>,
     <<KeyABX, 2 * PART_SIZE - 5, 1>>, <<KeyX, 2 * PART_SIZE, 1>>,
     <<KeyX, 2 * PART_SIZE + 5, 1>>}

TotalParts(file_size) == DivCeil(file_size, PART_SIZE)

Terminal == {"Completed", "Failed", "Cancelled"}

\* app.emit_all("upload:progress", ..) with the uploaded_bytes it carries
EmitUploadBytes(status, bytes) ==
    /\ uevents' = Append(uevents, status)
    /\ uevent_bytes' = Append(uevent_bytes, bytes)

\* the events that carry uploaded_bytes: 0
EmitUpload(status) == EmitUploadBytes(status, 0)

PartLengthZero(part_number, file_size) == 0

\* offset and length of a part
PartLength(part_number, file_size) ==
    LET offset == (part_number - 1) * PART_SIZE
    IN  IF PART_SIZE < file_size - offset THEN PART_SIZE ELSE file_size - offset

\* positions where the upload task is suspended
UploadAwaits == {"spawned", "adapter", "put", "mp_start", "part", "mp_abort",
                 "mp_complete"}

UploadResumes(pos) == utask = pos /\ ~uabort

\* upload_file up to and including tokio::spawn
UploadFileCmd(input) ==
    /\ upc = "idle"
    /\ uinput' = input
    /\ EmitUpload("Pending")
    /\ utask' = "spawned"
    /\ upc' = "spawned"
    /\ UNCHANGED <<upart, uploaded_bytes, active_uploads, ulock, usignal,
                   uabort, ucancel, mp>>
    /\ UNCHANGED indexVars
    /\ UNCHANGED uhook
    /\ UNCHANGED notUploadVars

\* upload_file after the spawn: uploads.insert(upload_id, UploadTask {..})
UploadRegister ==
    /\ upc = "spawned"
    /\ ~ulock
    /\ active_uploads' = TRUE
    /\ upc' = "returned"
    /\ UNCHANGED <<utask, uinput, upart, uploaded_bytes, ulock, usignal,
                   uabort, ucancel,
                   uevents, uevent_bytes, mp>>
    /\ UNCHANGED indexVars
    /\ UNCHANGED uhook
    /\ UNCHANGED notUploadVars

\* the task's first poll: the Starting event, then S3Adapter::from_profile
UploadTaskStart ==
    /\ UploadResumes("spawned")
    /\ EmitUpload("Starting")
    /\ utask' = "adapter"
    /\ UNCHANGED <<upc, uinput, upart, uploaded_bytes, active_uploads, ulock,
                   usignal, uabort,
                   ucancel, mp>>
    /\ UNCHANGED indexVars
    /\ UNCHANGED uhook
    /\ UNCHANGED notUploadVars

\* the Err arm of the match on perform_upload, up to the registry lock
UploadFails(status) ==
    /\ EmitUpload(status)
    /\ utask' = "remove"

\* the head of the loop over the parts: try_recv, then the abort request or
\* the next part or, behind the last part, the complete request
PartsLoopHead(part_number) ==
    IF part_number > TotalParts(uinput[2])
      THEN /\ utask' = "mp_complete"
           /\ UNCHANGED <<upart, usignal>>
    ELSE IF usignal
      THEN /\ utask' = "mp_abort"
           /\ usignal' = FALSE
           /\ UNCHANGED <<upart>>
      ELSE /\ utask' = "part"
           /\ upart' = part_number
           /\ UNCHANGED usignal

\* from_profile returned: the simple path up to put_object, or the multipart
\* path up to multipart_upload_start
UploadAdapterDone(ok) ==
    /\ UploadResumes("adapter")
    /\ IF ~ok
         THEN /\ UploadFails("Failed")
              /\ UNCHANGED usignal
         ELSE IF uinput[2] < uinput[3]
           THEN IF usignal
                  THEN /\ UploadFails("Cancelled")
                       /\ usignal' = FALSE
                  ELSE /\ utask' = "put"
                       /\ UNCHANGED <<uevents, uevent_bytes, usignal>>
           ELSE /\ utask' = "mp_start"
                /\ UNCHANGED <<uevents, uevent_bytes, usignal>>
    /\ UNCHANGED <<upc, uinput, upart, uploaded_bytes, active_uploads, ulock,
                   uabort, ucancel,
                   mp>>
    /\ UNCHANGED indexVars
    /\ UNCHANGED uhook
    /\ UNCHANGED notUploadVars

\* how the index hook of a finished upload goes: it runs through, or
\* get_index_manager fails, or add_object fails at one of its statements
HookOutcomes == {"ok"} \cup HookStages

UploadSucceedsUnhooked(hook) ==
    /\ s3' = s3 \cup {uinput[1]}
    /\ EmitUploadBytes("Completed", uinput[2])
    /\ utask' = "remove"
    /\ UNCHANGED <<objects, prefix_status, bucket_info, uhook>>

\* the Ok arm of the match on perform_upload: the object is in S3; if
\* get_index_manager succeeds add_object is called and its result dropped;
\* then Completed
UploadSucceeds(hook) ==
    /\ s3' = s3 \cup {uinput[1]}
    /\ IF hook = "ok"
         THEN SetIndex(AddObject(objects, prefix_status, uinput[1]))
         ELSE /\ objects' = IF hook = "mark" THEN objects \cup {uinput[1]}
                                             ELSE objects
              /\ UNCHANGED prefix_status
    /\ uhook' = IF hook = "manager" THEN "skipped" ELSE "ran"
    /\ EmitUploadBytes("Completed", uinput[2])
    /\ utask' = "remove"
    /\ UNCHANGED bucket_info

\* put_object returned
UploadPutDone(ok, hook) ==
    /\ UploadResumes("put")
    /\ IF ok
         THEN UploadSucceeds(hook)
         ELSE /\ hook = "ok"
              /\ UploadFails("Failed")
              /\ UNCHANGED uhook
              /\ UNCHANGED indexVars
    /\ UNCHANGED <<upc, uinput, upart, uploaded_bytes, active_uploads, ulock,
                   usignal, uabort, ucancel, mp>>
    /\ UNCHANGED notUploadVars

\* multipart_upload_start returned
UploadMpStartDone(ok) ==
    /\ UploadResumes("mp_start")
    /\ IF ok
         THEN /\ mp' = [mp EXCEPT !.created = TRUE]
              /\ uploaded_bytes' = 0
              /\ PartsLoopHead(1)
              /\ UNCHANGED <<uevents, uevent_bytes>>
         ELSE /\ UploadFails("Failed")
              /\ UNCHANGED <<mp, upart, uploaded_bytes, usignal>>
    /\ UNCHANGED <<upc, uinput, active_uploads, ulock, uabort, ucancel>>
    /\ UNCHANGED indexVars
    /\ UNCHANGED uhook
    /\ UNCHANGED notUploadVars

\* multipart_upload_part returned
UploadPartDone(ok) ==
    LET length == PartLength(upart, uinput[2])
    IN  /\ UploadResumes("part")
        /\ IF ok
             THEN /\ mp' = [mp EXCEPT !.parts = Append(@, <<upart, length>>)]
                  /\ uploaded_bytes' = uploaded_bytes + length
                  /\ EmitUploadBytes("Uploading", uploaded_bytes + length)
                  /\ PartsLoopHead(upart + 1)
             ELSE /\ UploadFails("Failed")
                  /\ UNCHANGED <<upart, uploaded_bytes, usignal, mp>>
        /\ UNCHANGED <<upc, uinput, active_uploads, ulock, uabort, ucancel>>
        /\ UNCHANGED indexVars
        /\ UNCHANGED uhook
        /\ UNCHANGED notUploadVars

\* multipart_upload_abort returned (its result is not looked at)
UploadMpAbortDone ==
    /\ UploadResumes("mp_abort")
    /\ mp' = [mp EXCEPT !.abort_issued = TRUE]
    /\ UploadFails("Cancelled")
    /\ UNCHANGED <<upc, uinput, upart, uploaded_bytes, active_uploads, ulock,
                   usignal, uabort,
                   ucancel>>
    /\ UNCHANGED indexVars
    /\ UNCHANGED uhook
    /\ UNCHANGED notUploadVars

\* multipart_upload_complete returned
UploadMpCompleteDone(ok, hook) ==
    /\ UploadResumes("mp_complete")
    /\ IF ok
         THEN /\ mp' = [mp EXCEPT !.completed = TRUE]
              /\ UploadSucceeds(hook)
         ELSE /\ hook = "ok"
              /\ UploadFails("Failed")
              /\ UNCHANGED <<mp, uhook>>
              /\ UNCHANGED indexVars
    /\ UNCHANGED <<upc, uinput, upart, uploaded_bytes, active_uploads, ulock,
                   usignal, uabort, ucancel>>
    /\ UNCHANGED notUploadVars

\* the end of the task: uploads.remove(&upload_id) under the registry lock
UploadTaskRemove ==
    /\ utask = "remove"
    /\ ~ulock
    /\ active_uploads' = FALSE
    /\ utask' = "done"
    /\ UNCHANGED <<upc, uinput, upart, uploaded_bytes, ulock, usignal, uabort,
                   ucancel,
                   uevents, uevent_bytes, mp>>
    /\ UNCHANGED indexVars
    /\ UNCHANGED uhook
    /\ UNCHANGED notUploadVars

\* the aborted task is dropped where it is suspended; the request it waits
\* for is dropped with it, and of these only the abort request is taken to
\* possibly have left for S3
UploadTaskDropped(sent) ==
    /\ utask \in UploadAwaits
    /\ uabort
    /\ utask' = "aborted"
    /\ mp' = IF utask = "mp_abort" /\ sent
               THEN [mp EXCEPT !.abort_issued = TRUE] ELSE mp
    /\ UNCHANGED <<upc, uinput, upart, uploaded_bytes, active_uploads, ulock,
                   usignal, uabort,
                   ucancel, uevents, uevent_bytes>>
    /\ UNCHANGED indexVars
    /\ UNCHANGED uhook
    /\ UNCHANGED notUploadVars

\* cancel_upload: the lock, uploads.remove, the Cancelled event, the signal
CancelUploadBegin ==
    /\ ucancel \in {"idle", "not_found"}
    /\ ~ulock
    /\ IF active_uploads
         THEN /\ active_uploads' = FALSE
              /\ EmitUpload("Cancelled")
              /\ usignal' = (utask \notin {"done", "aborted"})
              /\ ulock' = TRUE
              /\ ucancel' = "abort"
         ELSE /\ ucancel' = "not_found"
              /\ UNCHANGED <<active_uploads, uevents, uevent_bytes, usignal,
                             ulock>>
    /\ UNCHANGED <<upc, utask, uinput, upart, uploaded_bytes, uabort, mp>>
    /\ UNCHANGED indexVars
    /\ UNCHANGED uhook
    /\ UNCHANGED notUploadVars

\* cancel_upload: task.handle.abort(), Ok(()), the lock released
CancelUploadAbort ==
    /\ ucancel = "abort"
    /\ uabort' = (utask \notin {"done", "aborted"})
    /\ ulock' = FALSE
    /\ ucancel' = "done"
    /\ UNCHANGED <<upc, utask, uinput, upart, uploaded_bytes, active_uploads,
                   usignal,
                   uevents, uevent_bytes, mp>>
    /\ UNCHANGED indexVars
    /\ UNCHANGED uhook
    /\ UNCHANGED notUploadVars

NextUpload ==
    \/ \E input \in UploadInputs : UploadFileCmd(input)
    \/ UploadRegister
    \/ UploadTaskStart
    \/ \E ok \in BOOLEAN : UploadAdapterDone(ok)
    \/ \E ok \in BOOLEAN, hook \in HookOutcomes : UploadPutDone(ok, hook)
    \/ \E ok \in BOOLEAN : UploadMpStartDone(ok)
    \/ \E ok \in BOOLEAN : UploadPartDone(ok)
    \/ UploadMpAbortDone
    \/ \E ok \in BOOLEAN, hook \in HookOutcomes :
          UploadMpCompleteDone(ok, hook)
    \/ UploadTaskRemove
    \/ \E sent \in BOOLEAN : UploadTaskDropped(sent)
    \/ CancelUploadBegin
    \/ CancelUploadAbort

SpecUpload == InitCache /\ [][NextUpload]_vars

\* C8: once a terminal event (Completed, Failed, Cancelled) was emitted for
\* an upload id, no non-terminal event and no different terminal event
\* follows for that id.
C8_TerminalIsLast ==
    \A i \in 1..Len(uevents), j \in 1..Len(uevents) :
        (i < j /\ uevents[i] \in Terminal) => uevents[j] = uevents[i]

\* C9: once the upload task reached a terminal state and finished, the
\* registry holds no record for its id.
C9_NoRecordAfterTaskEnd ==
    utask = "done" => ~active_uploads

\* C10: when cancel_upload ran after create_multipart_upload succeeded and
\* before the upload was completed, abort_multipart_upload is issued for it
\* by the time the task has ended.
C10_CancelAbortsMultipart ==
    (/\ ucancel = "done"
     /\ utask \in {"done", "aborted"}
     /\ mp.created
     /\ ~mp.completed) => mp.abort_issued

RECURSIVE SumSizes(_)
SumSizes(parts) ==
    IF parts = << >> THEN 0 ELSE parts[1][2] + SumSizes(Tail(parts))

\* a multipart upload that S3 completed
MultipartSucceeded == mp.completed /\ utask \in {"remove", "done"}

\* the parts S3 received are numbered 1..N in order, N = ceil(file_size /
\* PART_SIZE), every part but the last has PART_SIZE bytes, the sizes sum to
\* file_size
PartsCoverFile ==
    LET n == DivCeil(uinput[2], PART_SIZE)
    IN  /\ Len(mp.parts) = n
        /\ \A i \in 1..n : mp.parts[i][1] = i
        /\ \A i \in 1..(n - 1) : mp.parts[i][2] = PART_SIZE
        /\ SumSizes(mp.parts) = uinput[2]

\* the uploaded_bytes of the events whose status is in the set never go down
\* and end at file_size
BytesNonDecreasing(statuses) ==
    LET idx == {i \in 1..Len(uevents) : uevents[i] \in statuses}
    IN  /\ \A i \in idx, j \in idx : i < j => uevent_bytes[i] <= uevent_bytes[j]
        /\ \A i \in idx : (\A j \in idx : j <= i) => uevent_bytes[i] = uinput[2]

\* what perform_upload and the upload task do in a successful multipart
\* upload: the parts cover the file and the uploaded_bytes of the task's own
\* events (all but Cancelled) are non-decreasing and end at file_size
C19_TaskEventsAndParts ==
    MultipartSucceeded
    => /\ PartsCoverFile
       /\ BytesNonDecreasing({"Pending", "Starting", "Uploading", "Completed"})

\* C19: in a successful multipart upload the part sizes sum to file_size,
\* the part numbers are exactly 1..N with N = ceil(file_size / PART_SIZE),
\* and the uploaded_bytes values of the upload's events are non-decreasing
\* with final value file_size.
C19_PartsAndBytes ==
    MultipartSucceeded
    => /\ PartsCoverFile
       /\ BytesNonDecreasing({"Pending", "Starting", "Uploading", "Completed",
                              "Cancelled", "Failed"})

\* the upload has emitted Completed
UploadCompleted == \E i \in 1..Len(uevents) : uevents[i] = "Completed"

\* the S3 write of the upload is done: put_object answered, or
\* complete_multipart_upload answered for parts in ascending number order
UploadWritten ==
    /\ uinput[1] \in s3
    /\ uinput[2] >= uinput[3]
       => /\ mp.completed
          /\ \A i \in 1..Len(mp.parts), j \in 1..Len(mp.parts) :
                i < j => mp.parts[i][1] < mp.parts[j][1]

\* the order of a successful upload, whatever becomes of the hook: no hook
\* before the S3 write is done, no Completed before the hook was reached,
\* the hook reached once (in the step of the successful answer, never again),
\* Completed emitted once
UploadHookOrder ==
    /\ uhook # "none" => UploadWritten
    /\ UploadCompleted => uhook # "none"
    /\ Cardinality({i \in 1..Len(uevents) : uevents[i] = "Completed"}) <= 1
    /\ (uhook = "none" /\ utask \in {"remove", "done"}) => ~UploadWritten

C11_FailureAbortsMultipart ==
    (/\ utask = "done"
     /\ ucancel \in {"idle", "not_found"}
     /\ mp.created
     /\ ~mp.completed)
    => /\ mp.abort_issued
       /\ \E i \in 1..Len(uevents) : uevents[i] = "Failed"

\* ------------------------------------------------------------------------
\* download_file / cancel_download (commands.rs)
\* ------------------------------------------------------------------------
\* emit_download_progress with the downloaded_bytes it is given
EmitDownloadBytes(status, bytes) ==
    /\ devents' = Append(devents, status)
    /\ devent_bytes' = Append(devent_bytes, bytes)

\* the calls that pass 0 for downloaded_bytes
EmitDownload(status) == EmitDownloadBytes(status, 0)

DownloadAwaits == {"spawned", "get", "create", "read", "write", "rm_cancel",
                   "rm_error", "flush"}

DownloadResumes(pos) == dtask = pos /\ ~dabort

\* download_file up to and including tokio::spawn
DownloadFileCmd ==
    /\ dpc = "idle"
    /\ EmitDownload("Pending")
    /\ dtask' = "spawned"
    /\ dpc' = "spawned"
    /\ UNCHANGED <<active_downloads, dsignal, dabort, dcancel, dfile, dchunks>>
    /\ UNCHANGED notDownloadVars

\* download_file after the spawn: downloads.insert(download_id, ..)
DownloadRegister ==
    /\ dpc = "spawned"
    /\ active_downloads' = TRUE
    /\ dpc' = "returned"
    /\ UNCHANGED <<dtask, dsignal, dabort, dcancel, devents, devent_bytes,
                   dfile, dchunks>>
    /\ UNCHANGED notDownloadVars

\* the task's first poll: the Starting event, then get_object_stream
DownloadTaskStart ==
    /\ DownloadResumes("spawned")
    /\ EmitDownload("Starting")
    /\ dtask' = "get"
    /\ UNCHANGED <<dpc, active_downloads, dsignal, dabort, dcancel, dfile,
                   dchunks>>
    /\ UNCHANGED notDownloadVars

\* an exit of the task: the event, downloads.remove, return; the event
\* carries downloaded_bytes, the chunks written so far (0 before the loop)
DownloadEnds(status) ==
    /\ EmitDownloadBytes(status, dchunks)
    /\ active_downloads' = FALSE
    /\ dtask' = "done"

\* the head of the download loop: try_recv, then remove_file or the read
DownloadLoopHead ==
    IF dsignal
      THEN /\ dtask' = "rm_cancel"
           /\ dsignal' = FALSE
      ELSE /\ dtask' = "read"
           /\ UNCHANGED dsignal

\* get_object_stream returned
DownloadGetDone(ok) ==
    /\ DownloadResumes("get")
    /\ IF ok
         THEN /\ dtask' = "create"
              /\ UNCHANGED <<devents, devent_bytes, active_downloads>>
         ELSE DownloadEnds("Failed")
    /\ UNCHANGED <<dpc, dsignal, dabort, dcancel, dfile, dchunks>>
    /\ UNCHANGED notDownloadVars

\* File::create returned
DownloadCreateDone(ok) ==
    /\ DownloadResumes("create")
    /\ IF ok
         THEN /\ dfile' = TRUE
              /\ DownloadLoopHead
              /\ UNCHANGED <<devents, devent_bytes, active_downloads>>
         ELSE /\ DownloadEnds("Failed")
              /\ UNCHANGED <<dfile, dsignal>>
    /\ UNCHANGED <<dpc, dabort, dcancel, dchunks>>
    /\ UNCHANGED notDownloadVars

\* stream.read returned: Ok(0) behind the last chunk, Ok(n), or Err
DownloadReadDone(ok) ==
    /\ DownloadResumes("read")
    /\ dtask' = IF ~ok THEN "rm_error"
                ELSE IF dchunks = NumChunks THEN "flush" ELSE "write"
    /\ UNCHANGED <<dpc, active_downloads, dsignal, dabort, dcancel, devents,
                   devent_bytes,
                   dfile, dchunks>>
    /\ UNCHANGED notDownloadVars

\* write_all returned; the Downloading event is emitted when 100 ms have
\* passed since the last one
DownloadWriteDone(ok, interval_elapsed) ==
    /\ DownloadResumes("write")
    /\ IF ok
         THEN /\ dchunks' = dchunks + 1
              /\ IF interval_elapsed
                   THEN EmitDownloadBytes("Downloading", dchunks + 1)
                   ELSE UNCHANGED <<devents, devent_bytes>>
              /\ DownloadLoopHead
         ELSE /\ dtask' = "rm_error"
              /\ UNCHANGED <<dchunks, devents, devent_bytes, dsignal>>
    /\ UNCHANGED <<dpc, active_downloads, dabort, dcancel, dfile>>
    /\ UNCHANGED notDownloadVars

\* remove_file returned, after a cancellation or after a read/write error
DownloadRemoveFileDone ==
    /\ \/ DownloadResumes("rm_cancel") /\ DownloadEnds("Cancelled")
       \/ DownloadResumes("rm_error") /\ DownloadEnds("Failed")
    /\ dfile' = FALSE
    /\ UNCHANGED <<dpc, dsignal, dabort, dcancel, dchunks>>
    /\ UNCHANGED notDownloadVars

\* flush returned
DownloadFlushDone(ok) ==
    /\ DownloadResumes("flush")
    /\ DownloadEnds(IF ok THEN "Completed" ELSE "Failed")
    /\ UNCHANGED <<dpc, dsignal, dabort, dcancel, dfile, dchunks>>
    /\ UNCHANGED notDownloadVars

\* the aborted task is dropped where it is suspended; File::create and
\* remove_file run on the blocking pool and are carried out even when the
\* future that waits for them is dropped
DownloadTaskDropped(created) ==
    /\ dtask \in DownloadAwaits
    /\ dabort
    /\ dtask' = "aborted"
    /\ dfile' = IF dtask \in {"rm_cancel", "rm_error"} THEN FALSE
                ELSE IF dtask = "create" THEN created
                ELSE dfile
    /\ UNCHANGED <<dpc, active_downloads, dsignal, dabort, dcancel, devents,
                   devent_bytes,
                   dchunks>>
    /\ UNCHANGED notDownloadVars

\* cancel_download: downloads.remove under the lock, the signal
CancelDownloadBegin ==
    /\ dcancel \in {"idle", "not_found"}
    /\ IF active_downloads
         THEN /\ active_downloads' = FALSE
              /\ dsignal' = (dtask \notin {"done", "aborted"})
              /\ dcancel' = "emit"
         ELSE /\ dcancel' = "not_found"
              /\ UNCHANGED <<active_downloads, dsignal>>
    /\ UNCHANGED <<dpc, dtask, dabort, devents, devent_bytes, dfile, dchunks>>
    /\ UNCHANGED notDownloadVars

\* cancel_download: the Cancelled event
CancelDownloadEmit ==
    /\ dcancel = "emit"
    /\ EmitDownload("Cancelled")
    /\ dcancel' = "abort"
    /\ UNCHANGED <<dpc, dtask, active_downloads, dsignal, dabort, dfile,
                   dchunks>>
    /\ UNCHANGED notDownloadVars

\* cancel_download: task.handle.abort(), Ok(())
CancelDownloadAbort ==
    /\ dcancel = "abort"
    /\ dabort' = (dtask \notin {"done", "aborted"})
    /\ dcancel' = "done"
    /\ UNCHANGED <<dpc, dtask, active_downloads, dsignal, devents,
                   devent_bytes, dfile,
                   dchunks>>
    /\ UNCHANGED notDownloadVars

NextDownload ==
    \/ DownloadFileCmd
    \/ DownloadRegister
    \/ DownloadTaskStart
    \/ \E ok \in BOOLEAN : DownloadGetDone(ok)
    \/ \E ok \in BOOLEAN : DownloadCreateDone(ok)
    \/ \E ok \in BOOLEAN : DownloadReadDone(ok)
    \/ \E ok \in BOOLEAN, elapsed \in BOOLEAN : DownloadWriteDone(ok, elapsed)
    \/ DownloadRemoveFileDone
    \/ \E ok \in BOOLEAN : DownloadFlushDone(ok)
    \/ \E created \in BOOLEAN : DownloadTaskDropped(created)
    \/ CancelDownloadBegin
    \/ CancelDownloadEmit
    \/ CancelDownloadAbort

SpecDownload == InitCache /\ [][NextDownload]_vars

\* uploads and downloads side by side
NextTransfers == NextUpload \/ NextDownload

SpecTransfers == InitCache /\ [][NextTransfers]_vars

\* the values at the positions of events of the given status go strictly up
StrictlyIncreasingAt(events, bytes, status) ==
    \A i \in 1..Len(events), j \in 1..Len(events) :
        (i < j /\ events[i] = status /\ events[j] = status)
        => bytes[i] < bytes[j]

C39_FailedDownloadLeavesNoFile ==
    (/\ dtask = "done"
     /\ \E i \in 1..Len(devents) : devents[i] = "Failed")
    => ~dfile

\* C7: after cancel_download returned and the task has ended without
\* finishing the download, the partial destination file is no longer on
\* disk.
C7_PartialFileRemoved ==
    (/\ dcancel = "done"
     /\ dtask \in {"done", "aborted"}
     /\ \A i \in 1..Len(devents) : devents[i] \notin {"Completed", "Failed"})
    => ~dfile

\* ------------------------------------------------------------------------
\* Claims about the index
\* ------------------------------------------------------------------------
RowComplete(rows, prefix) == HasRow(rows, prefix) /\ rows[prefix].is_complete

\* C36: when initial_index_bucket finishes with is_complete = true against a
\* bucket that does not change during the run, the set of indexed object keys
\* for that bucket equals the set of keys in S3, whatever rows the index held
\* before the run.
C36_CompleteRunIndexEqualsS3 ==
    [][\A c \in RunConfigs :
          (InitialIndexCmd(c[1], c[2], c[3])
           /\ bucket_info'.initial_index_completed)
            => objects' = s3]_vars

\* a complete run leaves every key of S3 indexed, next to the rows the index
\* held before
C36_CompleteRunCoversS3 ==
    [][\A c \in RunConfigs :
          (InitialIndexCmd(c[1], c[2], c[3])
           /\ bucket_info'.initial_index_completed)
            => objects' = objects \cup s3]_vars

\* list_objects(prefix, sync_index = true) returns a first page that is not
\* truncated
SyncedFirstPage(p, max_keys, delim) ==
    /\ ListObjectsCmd(p, EmptyStr, max_keys, delim, TRUE)
    /\ ~ListObjectsV2(s3, p, EmptyStr, max_keys, delim).is_truncated

\* the rows the sync of that page finds in the index and not in the page
StaleRows(p, max_keys, delim) ==
    LET response == ListObjectsV2(s3, p, EmptyStr, max_keys, delim)
    IN  {k \in objects : /\ ExtractParentPrefix(k) = p
                         /\ k \notin SeqToSet(response.objects)}

\* C37: after list_objects(bucket, prefix, sync_index = true) returns a
\* non-truncated first page, the PrefixStatus row for prefix has is_complete
\* = true, whether or not the sync removed stale rows.
C37_SyncedPrefixComplete ==
    [][\A p \in InputPrefixes, delim \in BOOLEAN, c \in FirstPageConfigs :
          SyncedFirstPage(p, c[1], delim)
            => (HasRow(prefix_status', p) /\ prefix_status'[p].is_complete)]_vars

\* the row is complete when the sync had nothing to remove
C37_CompleteWhenNothingStale ==
    [][\A p \in InputPrefixes, delim \in BOOLEAN, c \in FirstPageConfigs :
          (SyncedFirstPage(p, c[1], delim) /\ StaleRows(p, c[1], delim) = {})
            => (HasRow(prefix_status', p) /\ prefix_status'[p].is_complete)]_vars

\* C38: in every reachable index state get_bucket_stats(bucket).is_complete
\* = true implies that is_bucket_complete(bucket) (the
\* is_bucket_index_complete command) returns true; is_bucket_complete also
\* returns true without it, and then the root PrefixStatus row is complete.
C38_StatsCompleteImpliesBucketComplete ==
    LET stats == BucketStatsComplete(bucket_info)
        bucket == IsBucketComplete(bucket_info, prefix_status, objects)
    IN  /\ stats => bucket
        /\ (bucket /\ ~stats) => /\ HasRow(prefix_status, EmptyStr)
                                 /\ prefix_status[EmptyStr].is_complete

\* C38 as stated: the two return the same value
C38_SameValue ==
    IsBucketComplete(bucket_info, prefix_status, objects)
        = BucketStatsComplete(bucket_info)

\* after a complete run and a later hook the root row is incomplete, and the
\* two agree on true
C38_Witness ==
    /\ BucketStatsComplete(bucket_info)
    /\ IsBucketComplete(bucket_info, prefix_status, objects)
    /\ HasRow(prefix_status, EmptyStr)
    /\ ~prefix_status[EmptyStr].is_complete
    /\ objects # {}

\* C4: every ancestor prefix, up to and including the empty root prefix, of
\* every stored PrefixStatus row also has a PrefixStatus row.
C4_AncestorClosure ==
    \A p \in DOMAIN prefix_status :
        \A q \in ParentChain(p) \cup {EmptyStr} : HasRow(prefix_status, q)

\* C13: after add_object for a key, a PrefixStatus row exists for the key's
\* parent prefix and for every ancestor up to the root prefix, each with
\* is_complete = false (for "a/b/x": "a/b/", "a/" and "").
C13_AddObjectCreatesAncestorRows ==
    [][\A k \in Keys :
          PutObjectCmd(k)
          => \A q \in AncestorSet(ExtractParentPrefix(k)) :
                 HasRow(prefix_status', q) /\ ~prefix_status'[q].is_complete
    ]_vars

\* what a mutating hook on `affected` must leave behind once the bucket was
\* indexed completely: the bucket still complete with a complete root row,
\* or no row of the affected prefix and its ancestors left complete
C5_After(affected) ==
    \/ /\ bucket_info'.initial_index_completed
       /\ RowComplete(prefix_status', EmptyStr)
    \/ \A q \in AncestorSet(affected) : ~RowComplete(prefix_status', q)

\* a list_objects call whose sync_prefix_objects deleted rows
SyncDeleted(prefix, max_keys, delim) ==
    LET response == ListObjectsV2(s3, prefix, EmptyStr, max_keys, delim)
    IN  /\ ~response.is_truncated
        /\ DbSyncPrefixObjects(objects \cup SeqToSet(response.objects), prefix,
                               SeqToSet(response.objects))
             # objects \cup SeqToSet(response.objects)

ListingCompletes(prefix, max_keys, delim, sync_index) ==
    /\ ListObjectsCmd(prefix, EmptyStr, max_keys, delim, sync_index)
    /\ RowComplete(prefix_status', prefix)
    /\ \/ ~RowComplete(prefix_status, prefix)
       \/ ~ListObjectsV2(s3, prefix, EmptyStr, max_keys, delim).is_truncated

\* the rows a complete initial_index_bucket run writes as complete
RunCompletes(c, prefix) ==
    /\ InitialIndexCmd(c[1], c[2], c[3])
    /\ bucket_info'.initial_index_completed
    /\ prefix \in {EmptyStr} \cup AllPrefixStatsBatch(objects')
    /\ RowComplete(prefix_status', prefix)

\* the key lies under the prefix with no further '/' behind the prefix
DirectChild(k, prefix) == StartsWith(k, prefix) /\ RFindSlash(k) <= Len(prefix)

IsCall(i, op) == i \in 1..Len(calls) /\ calls[i].op = op

\* the rows of a bucket's prefix_status before and after the i-th call
RowsBefore(i, bucket) == store[i].prefix_status[bucket]
RowsAfter(i, bucket) == store[i + 1].prefix_status[bucket]

\* C22 as amended: after update_from_list_response the row of the prefix
\* exists; it is complete if the response is not truncated; for a truncated
\* response a new row is incomplete and an existing row keeps its flag.
C22_CompleteRaisedNotLowered ==
    \A i \in 1..Len(calls) :
        IsCall(i, "update_from_list_response") =>
            LET bucket == calls[i].arg[1]
                prefix == calls[i].arg[2]
                response == calls[i].arg[3]
            IN  /\ HasRow(RowsAfter(i, bucket), prefix)
                /\ RowsAfter(i, bucket)[prefix].is_complete =
                     (\/ ~response.is_truncated
                      \/ RowComplete(RowsBefore(i, bucket), prefix))

\* C22: after update_from_list_response(bucket, prefix, response) the row of
\* the prefix has is_complete = !response.is_truncated, whether or not a row
\* existed before.
C22_CompleteEqualsNotTruncated ==
    \A i \in 1..Len(calls) :
        IsCall(i, "update_from_list_response") =>
            LET bucket == calls[i].arg[1]
                prefix == calls[i].arg[2]
                response == calls[i].arg[3]
            IN  /\ HasRow(RowsAfter(i, bucket), prefix)
                /\ RowsAfter(i, bucket)[prefix].is_complete =
                     ~response.is_truncated

\* a truncated page arrived for a prefix whose row was complete and left it
\* complete, then one for a prefix that had no row and left it incomplete
C22_Witness ==
    /\ Len(calls) = 2
    /\ IsCall(1, "update_from_list_response")
    /\ IsCall(2, "update_from_list_response")
    /\ calls[1].arg[3].is_truncated /\ calls[2].arg[3].is_truncated
    /\ calls[1].arg[2] = EmptyStr /\ calls[2].arg[2] = PrefixAB
    /\ RowComplete(RowsBefore(1, BucketOne), EmptyStr)
    /\ RowComplete(RowsAfter(1, BucketOne), EmptyStr)
    /\ ~HasRow(RowsBefore(2, BucketOne), PrefixAB)
    /\ ~RowComplete(RowsAfter(2, BucketOne), PrefixAB)

\* the rows sync_prefix_objects(bucket, prefix, current_keys) has to delete
SyncTargets(tbl, bucket, prefix, current_keys) ==
    {r \in DOMAIN tbl : /\ r.bucket_name = bucket
                        /\ ExtractParentPrefix(r.key) = prefix
                        /\ r.key \notin current_keys}

\* C23: sync_prefix_objects(bucket, prefix, current_keys) deletes exactly the
\* object rows of that bucket whose parent_prefix equals prefix and whose key
\* is not in current_keys (all such rows when current_keys is empty), returns
\* their number, and leaves every other row unchanged.
C23_SyncDeletesExactly ==
    \A i \in 1..Len(calls) :
        IsCall(i, "db_sync_prefix_objects") =>
            LET before == store[i].objects
                after == store[i + 1].objects
                gone == SyncTargets(before, calls[i].arg[1], calls[i].arg[2],
                                    calls[i].arg[3])
            IN  /\ DOMAIN after = DOMAIN before \ gone
                /\ \A r \in DOMAIN after : after[r] = before[r]
                /\ calls[i].ret = SumCopies(before, gone)
                /\ store[i + 1].prefix_status = store[i].prefix_status
                /\ store[i + 1].bucket_info = store[i].bucket_info

\* sync_prefix_objects("b1", "", {}) deleted "x" of the first bucket and kept
\* the deeper keys and the "x" of the second bucket
C23_Witness ==
    /\ IsCall(1, "db_sync_prefix_objects")
    /\ calls[1].arg = <<BucketOne, EmptyStr, {}>>
    /\ calls[1].ret = 1
    /\ KeysIn(store[2].objects, BucketOne) = {KeyABX, KeyUpperABY}
    /\ KeysIn(store[2].objects, BucketTwo) = {KeyX}

\* C24: remove_folder(bucket, prefix) deletes from the index every object of
\* that bucket whose key starts with prefix and no other object, marks the
\* parent of prefix and all its ancestors incomplete, and deletes the
\* PrefixStatus row of prefix itself.
C24_RemoveFolderExact ==
    \A i \in 1..Len(calls) :
        IsCall(i, "remove_folder") =>
            LET bucket == calls[i].arg[1]
                prefix == calls[i].arg[2]
                before == store[i].objects
                after == store[i + 1].objects
                gone == {r \in DOMAIN before : /\ r.bucket_name = bucket
                                               /\ StartsWith(r.key, prefix)}
            IN  /\ DOMAIN after = DOMAIN before \ gone
                /\ \A r \in DOMAIN after : after[r] = before[r]
                /\ \A q \in AncestorSet(ExtractParentPrefix(prefix)) \ {prefix} :
                      /\ HasRow(RowsAfter(i, bucket), q) = HasRow(RowsBefore(i, bucket), q)
                      /\ ~RowComplete(RowsAfter(i, bucket), q)
                /\ ~HasRow(RowsAfter(i, bucket), prefix)

\* every prefix a key of the model can be asked about, "" included
StatPrefixes ==
    UNION {{SubSeq(k, 1, n) : n \in 0..Len(k)} : k \in StoreKeys}

\* what get_prefix_stats and get_bucket_stats report as counts and sizes
SameStats(st1, st2) ==
    \A b \in Buckets :
        /\ CalculateBucketStats(st1.objects, b) = CalculateBucketStats(st2.objects, b)
        /\ \A p \in StatPrefixes :
              CalculatePrefixStats(st1.objects, b, p)
                  = CalculatePrefixStats(st2.objects, b, p)

\* calls i and i + 1 are add_object and remove_object of one key
AddThenRemove(i) ==
    /\ IsCall(i, "add_object")
    /\ IsCall(i + 1, "remove_object")
    /\ calls[i].arg[1] = calls[i + 1].arg[1]
    /\ calls[i].arg[2] = calls[i + 1].arg[2]

BatchTwice(i) ==
    /\ IsCall(i, "upsert_objects_batch")
    /\ IsCall(i + 1, "upsert_objects_batch")
    /\ calls[i].arg = calls[i + 1].arg

\* one row per (profile, bucket, key, version_id)
OneRowPerIdentity(tbl) ==
    \A r1 \in DOMAIN tbl :
        /\ tbl[r1] = 1
        /\ \A r2 \in DOMAIN tbl : UniqueConflict(r1, r2) => r1 = r2

\* C26: calling upsert_objects_batch twice with the same set of rows leaves
\* the same set of object rows (one row per (profile, bucket, key,
\* version_id), with the same observable column values) and the same counts
\* and sizes as calling it once.
C26_BatchUpsertIdempotent ==
    \A i \in 1..Len(calls) :
        BatchTwice(i) =>
            /\ store[i + 2].objects = store[i + 1].objects
            /\ OneRowPerIdentity(store[i + 2].objects)
            /\ SameStats(store[i + 2], store[i + 1])
            /\ calls[i + 1].ret = calls[i].ret

\* the batch holding "x" in version v1 and twice in the current version was
\* given twice to an index that already held "x"
C26_Witness ==
    /\ Len(calls) = 2
    /\ BatchTwice(1)
    /\ Len(calls[1].arg) = 3
    /\ KeysIn(store[1].objects, BucketOne) = {KeyX, KeyUpperABY}
    /\ CalculateBucketStats(store[3].objects, BucketOne) = <<3, 4>>

\* the rows of one bucket in the three tables
BucketPart(st, bucket) ==
    [objects |-> [r \in {q \in DOMAIN st.objects : q.bucket_name = bucket}
                     |-> st.objects[r]],
     prefix_status |-> st.prefix_status[bucket],
     bucket_info |-> st.bucket_info[bucket]]

\* C27: clear_bucket_index(bucket) removes all objects, prefix_status and
\* bucket_info rows of that bucket as one atomic step (all three deletions
\* or none if any fails) and leaves the rows of every other bucket unchanged.
C27_ClearAtomic ==
    \A i \in 1..Len(calls) :
        IsCall(i, "clear_bucket_index") =>
            LET bucket == calls[i].arg[1]
            IN  /\ calls[i].ret = "ok" =>
                      BucketPart(store[i + 1], bucket) = BucketPart(EmptyStore, bucket)
                /\ calls[i].ret = "err" =>
                      BucketPart(store[i + 1], bucket) = BucketPart(store[i], bucket)
                /\ \A b \in Buckets \ {bucket} :
                      BucketPart(store[i + 1], b) = BucketPart(store[i], b)

\* clear_bucket_index of the first bucket, with objects, prefix_status rows
\* and a bucket_info row, failed at its last DELETE and left all of them;
\* the next call cleared the bucket, and the second bucket still has its rows
C27_Witness ==
    /\ Len(calls) = 2
    /\ IsCall(1, "clear_bucket_index") /\ IsCall(2, "clear_bucket_index")
    /\ calls[1].arg = <<BucketOne, "bucket_info">> /\ calls[1].ret = "err"
    /\ calls[2].arg = <<BucketOne, "none">> /\ calls[2].ret = "ok"
    /\ KeysIn(store[1].objects, BucketOne) = StoreKeys
    /\ store[1].prefix_status[BucketOne] # NoRows
    /\ store[1].bucket_info[BucketOne].present
    /\ store[2] = store[1]
    /\ BucketPart(store[3], BucketOne) = BucketPart(EmptyStore, BucketOne)
    /\ KeysIn(store[3].objects, BucketTwo) = {KeyX}

\* C30: with max_initial_requests = N > 0, initial_index_bucket issues at
\* most N list_objects_v2 requests without delimiter and always terminates,
\* even if every page returned by S3 is truncated.
C30_CappedRunTerminates ==
    /\ [](\A c \in Calls :
            icfg[c][1] > 0 => irun[c].requests_made <= icfg[c][1])
    /\ (ipc[1] \in RunningPcs /\ icfg[1][1] > 0) ~> (ipc[1] \notin RunningPcs)

\* a run capped at N requests has received N truncated pages and left the
\* loop at the cap with more keys in the bucket than it indexed
C30_Witness ==
    /\ ipc[1] = "finish"
    /\ icfg[1][1] > 0
    /\ irun[1].requests_made = icfg[1][1]
    /\ ~irun[1].is_complete /\ ~irun[1].was_cancelled
    /\ irun[1].continuation_token # EmptyStr
    /\ Cardinality(s3) > irun[1].total_indexed

\* C31: when init returns an error in get_or_insert_with, nothing is stored
\* for the key and the error is returned to the caller; the next
\* get_or_insert_with for that key (finding it still absent) calls init again.
C31_InitErrorNotCached ==
    [][\A t \in Threads :
          /\ (cpc[t] = "init" /\ cpc'[t] = "done")
                => (cval'[t] = -1 /\ cache' = cache)
          /\ (cpc[t] = "idle" /\ cpc'[t] # "idle" /\ cache[ckey'[t]] = 0)
                => cpc'[t] = "init"
          /\ (cpc[t] = "idle" /\ cpc'[t] = "done") => cval'[t] > 0]_vars

\* one caller holds the error of the only init call made so far, the key is
\* still absent, and another caller of the same key is about to call init
C31_Witness ==
    \E t \in Threads, u \in Threads :
        /\ cpc[u] = "done" /\ cval[u] = -1
        /\ cpc[t] = "init" /\ ckey[t] = ckey[u]
        /\ cache[ckey[u]] = 0 /\ removals[ckey[u]] = 0
        /\ inits = 1

\* C1: under concurrent get_or_insert_with calls for the same missing key,
\* init is invoked once (no two callers are building the same key at the
\* same time) and callers of one key with no removal in between receive the
\* same value.
C1_AtMostOneBuild ==
    \A t1 \in Threads, t2 \in Threads :
        (t1 # t2 /\ ckey[t1] = ckey[t2]) =>
            /\ ~(cpc[t1] \in {"init", "insert"} /\ cpc[t2] \in {"init", "insert"})
            /\ (/\ cpc[t1] = "done" /\ cpc[t2] = "done"
                /\ cval[t1] > 0 /\ cval[t2] > 0
                /\ cgen[t1] = removals[ckey[t1]] /\ cgen[t2] = removals[ckey[t2]])
               => cval[t1] = cval[t2]

====
